---- MODULE Spec2Model ----
(***************************************************************************)
(* A model of biom/table.py: the sparse matrix store (SparseDict), the     *)
(* Table abstraction over a sparse or a dense backing, the merge of two    *)
(* tables and the interchange record.                                      *)
(*                                                                         *)
(* Conventions.  Python's None, and every optional value, is a record      *)
(* with a "tag" field.  A dict is a function whose DOMAIN is its key set.  *)
(* A list is a sequence; Python's 0-based position i is position i + 1 of  *)
(* the sequence.  Matrix coordinates are the 0-based pairs <<row, col>> of *)
(* the code.  Matrix values are integers: the float()/dtype() casts of     *)
(* the code keep the numeric value, and Python compares 3 == 3.0 as equal. *)
(* An operation that raises returns a record whose err field names the     *)
(* Python exception.                                                       *)
(***************************************************************************)
EXTENDS Integers, Sequences, FiniteSets, TLC

VARIABLES
    sd,       \* the SparseDict under test
    written,  \* history: in-shape coordinate -> value of its most recent
              \* successful set, zero before any
    lastOp,   \* the last store operation: its name, arguments and outcome
    t,        \* the receiver Table
    u,        \* the other Table (merge operand)
    res       \* the outcome of the last Table operation

vars == <<sd, written, lastOp, t, u, res>>

\* ---------------------------------------------------------------- bounds
\* Largest shape of the sparse store under test, and its largest value.
MaxRows == 2
MaxCols == 1
MaxVal == 1
\* Most entries of the dict handed to one SparseDict.update.
MaxEntries == 2
\* Largest matrix value of the tables under test.
MaxCount == 1
\* Longest identifier and metadata lists handed to the Table constructor.
MaxIds == 2
MaxMd == 1

\* ------------------------------------------------------------- generic
None == [tag |-> "None"]

EmptyDict == [k \in {} |-> 0]

DictSet(d, k, v) == [x \in (DOMAIN d) \cup {k} |-> IF x = k THEN v ELSE d[x]]

DictDel(d, k) == [x \in (DOMAIN d) \ {k} |-> d[x]]

\* dict.update(other): other's entries win.
DictUpdate(d, other) ==
    [x \in (DOMAIN d) \cup (DOMAIN other) |->
        IF x \in DOMAIN other THEN other[x] ELSE d[x]]

\* The exceptions SparseDict raises for a coordinate outside the shape.
OutOfBounds(e) == e \in {"KeyError", "IndexError"}

\* ---------------------------------------------------------- SparseDict
\* SparseDict.__init__
SparseDict(rows, cols) ==
    [shape |-> <<rows, cols>>,
     items |-> EmptyDict,
     index_rows |-> [i \in 0..(rows - 1) |-> {}],
     index_cols |-> [i \in 0..(cols - 1) |-> {}]]

\* Mutant: a zero value leaves the index sets alone.
UpdateInternalIndicesKeepsZero(self, args, value) ==
    IF value = 0
    THEN self
    ELSE [self EXCEPT !.index_rows[args[1]] = @ \cup {args},
                      !.index_cols[args[2]] = @ \cup {args}]

\* SparseDict._update_internal_indices
UpdateInternalIndices(self, args, value) ==
    IF value = 0
    THEN IF args \in DOMAIN self.items
         THEN [self EXCEPT !.index_rows[args[1]] = @ \ {args},
                           !.index_cols[args[2]] = @ \ {args}]
         ELSE self
    ELSE [self EXCEPT !.index_rows[args[1]] = @ \cup {args},
                      !.index_cols[args[2]] = @ \cup {args}]

\* Mutant: the bounds test accepts row == rows and col == cols.
SetItemOffByOne(self, args, value) ==
    IF args[1] > self.shape[1] \/ args[1] < 0 \/ args[2] > self.shape[2] \/ args[2] < 0
    THEN [err |-> "KeyError", sd |-> self]
    ELSE [err |-> "", sd |-> [self EXCEPT !.items = DictSet(@, args, value)]]

\* Mutant: a zero value is stored like any other.
SetItemStoresZero(self, args, value) ==
    IF args[1] >= self.shape[1] \/ args[1] < 0 \/ args[2] >= self.shape[2] \/ args[2] < 0
    THEN [err |-> "KeyError", sd |-> self]
    ELSE [err |-> "",
          sd |-> [UpdateInternalIndices(self, args, value)
                     EXCEPT !.items = DictSet(@, args, value)]]

\* SparseDict.__setitem__
SetItem(self, args, value) ==
    LET row == args[1]
        col == args[2]
    IN  IF row >= self.shape[1] \/ row < 0
        THEN [err |-> "KeyError", sd |-> self]
        ELSE IF col >= self.shape[2] \/ col < 0
        THEN [err |-> "KeyError", sd |-> self]
        ELSE IF value = 0
        THEN IF args \in DOMAIN self.items
             THEN [err |-> "",
                   sd |-> [UpdateInternalIndices(self, args, value)
                              EXCEPT !.items = DictDel(@, args)]]
             ELSE [err |-> "", sd |-> self]
        ELSE [err |-> "",
              sd |-> [UpdateInternalIndices(self, args, value)
                         EXCEPT !.items = DictSet(@, args, value)]]

\* SparseDict.__getitem__ for an integer (row, col); dtype(0) is 0.
GetItem(self, args) ==
    LET row == args[1]
        col == args[2]
    IN  IF row >= self.shape[1] \/ row < 0
        THEN [err |-> "IndexError", val |-> 0]
        ELSE IF col >= self.shape[2] \/ col < 0
        THEN [err |-> "IndexError", val |-> 0]
        ELSE IF args \notin DOMAIN self.items
        THEN [err |-> "", val |-> 0]
        ELSE [err |-> "", val |-> self.items[args]]

\* ------------------------------------------------------- lists, vectors
Range(s) == {s[i] : i \in DOMAIN s}

RECURSIVE SeqSum(_)
SeqSum(s) == IF s = <<>> THEN 0 ELSE s[1] + SeqSum(Tail(s))

\* A set of dict items in one of the orders dict.items() may give; used only
\* where the order cannot change the outcome.
RECURSIVE SetToSeq(_)
SetToSeq(S) ==
    IF S = {} THEN <<>>
    ELSE LET x == CHOOSE y \in S : TRUE IN <<x>> \o SetToSeq(S \ {x})

Items(d) == {<<k, d[k]>> : k \in DOMAIN d}

\* ------------------------------------------------- SparseDict, continued
\* SparseDict.update over update_dict.items() taken in the order `entries`;
\* `scrubbed` collects the nonzero entries for the closing dict.update.
RECURSIVE UpdateLoop(_, _, _)
UpdateLoop(self, entries, scrubbed) ==
    IF entries = <<>>
    THEN [err |-> "", sd |-> [self EXCEPT !.items = DictUpdate(@, scrubbed)]]
    ELSE LET args == entries[1][1]
             value == entries[1][2]
         IN  IF args[1] >= self.shape[1] \/ args[1] < 0
             THEN [err |-> "KeyError", sd |-> self]
             ELSE IF args[2] >= self.shape[2] \/ args[2] < 0
             THEN [err |-> "KeyError", sd |-> self]
             ELSE IF value = 0
             THEN UpdateLoop(UpdateInternalIndices(SetItem(self, args, 0).sd, args, value),
                             Tail(entries), scrubbed)
             ELSE UpdateLoop(UpdateInternalIndices(self, args, value),
                             Tail(entries), DictSet(scrubbed, args, value))

\* Mutant: dict.update alone, without bounds tests, zero handling or index
\* updates.
UpdateBackingOnly(self, entries) ==
    [err |-> "",
     sd |-> [self EXCEPT !.items =
                [k \in (DOMAIN @) \cup {entries[n][1] : n \in DOMAIN entries} |->
                    IF \E n \in DOMAIN entries : entries[n][1] = k
                    THEN entries[CHOOSE n \in DOMAIN entries : entries[n][1] = k][2]
                    ELSE @[k]]]]

\* SparseDict.update
Update(self, entries) == UpdateLoop(self, entries, EmptyDict)

\* SparseDict.getRow; dict.__getitem__ raises KeyError for an indexed
\* coordinate the backing dict does not hold.
GetRow(self, row) ==
    IF row >= self.shape[1] \/ row < 0
    THEN [err |-> "IndexError", sd |-> self]
    ELSE IF \E a \in self.index_rows[row] : a \notin DOMAIN self.items
    THEN [err |-> "KeyError", sd |-> self]
    ELSE LET d == [k \in {<<0, a[2]>> : a \in self.index_rows[row]} |->
                      self.items[<<row, k[2]>>]]
         IN  Update(SparseDict(1, self.shape[2]), SetToSeq(Items(d)))

\* SparseDict.getCol
GetCol(self, col) ==
    IF col >= self.shape[2] \/ col < 0
    THEN [err |-> "IndexError", sd |-> self]
    ELSE IF \E a \in self.index_cols[col] : a \notin DOMAIN self.items
    THEN [err |-> "KeyError", sd |-> self]
    ELSE LET d == [k \in {<<a[1], 0>> : a \in self.index_cols[col]} |->
                      self.items[<<k[1], col>>]]
         IN  Update(SparseDict(self.shape[1], 1), SetToSeq(Items(d)))

\* Mutant: the store is returned as it is.
TransposeKeepsShape(self) ==
    self

\* SparseDict.transpose
Transpose(self) ==
    LET d == [k \in {<<a[2], a[1]>> : a \in DOMAIN self.items} |->
                 self.items[<<k[2], k[1]>>]]
    IN  Update(SparseDict(self.shape[2], self.shape[1]), SetToSeq(Items(d))).sd

\* nparray_to_sparsedict for a 1-d vector: shape (1, n), zeros skipped.
RECURSIVE NpVectorLoop(_, _, _)
NpVectorLoop(mat, data, idx) ==
    IF idx >= Len(data) THEN mat
    ELSE NpVectorLoop(IF data[idx + 1] # 0
                      THEN SetItem(mat, <<0, idx>>, data[idx + 1]).sd
                      ELSE mat,
                      data, idx + 1)

NpVectorToSparseDict(data) == NpVectorLoop(SparseDict(1, Len(data)), data, 0)

\* nparray_to_sparsedict for a 2-d array.
RECURSIVE NpArrayLoop(_, _, _)
NpArrayLoop(mat, data, cells) ==
    IF cells = <<>> THEN mat
    ELSE NpArrayLoop(IF data.a[cells[1]] # 0
                     THEN SetItem(mat, cells[1], data.a[cells[1]]).sd
                     ELSE mat,
                     data, Tail(cells))

NpArrayToSparseDict(data) ==
    NpArrayLoop(SparseDict(data.shape[1], data.shape[2]), data,
                SetToSeq(DOMAIN data.a))

\* The writes of list_dict_to_sparsedict's loop, as <<coordinate, value>>.
ListDictWrites(data, is_col) ==
    UNION {{<<IF is_col THEN <<k[1], row_idx>> ELSE <<row_idx, k[2]>>,
              data[row_idx + 1].items[k]>> : k \in DOMAIN data[row_idx + 1].items} :
           row_idx \in 0..(Len(data) - 1)}

\* mat[...] = dtype(val) for each write in turn; the first failure ends it.
RECURSIVE SetItems(_, _)
SetItems(mat, writes) ==
    IF writes = <<>> THEN [err |-> "", sd |-> mat]
    ELSE LET r == SetItem(mat, writes[1][1], writes[1][2])
         IN  IF r.err # "" THEN r ELSE SetItems(r.sd, Tail(writes))

\* list_dict_to_sparsedict for a list of SparseDict vectors.
ListDictToSparseDict(data) ==
    LET is_col == data[1].shape[1] > data[1].shape[2]
        n_rows == IF is_col THEN data[1].shape[1] ELSE Len(data)
        n_cols == IF is_col THEN Len(data) ELSE data[1].shape[2]
    IN  SetItems(SparseDict(n_rows, n_cols), SetToSeq(ListDictWrites(data, is_col)))

\* list_list_to_sparsedict: [[row, col, value], ...]; the shape is one more
\* than the largest row and the largest column among the nonzero triples.
ListListToSparseDict(data) ==
    LET kept == {i \in DOMAIN data : data[i][3] # 0}
        d == [k \in {<<data[i][1], data[i][2]>> : i \in kept} |->
                 data[CHOOSE i \in kept :
                        /\ <<data[i][1], data[i][2]>> = k
                        /\ \A j \in kept : <<data[j][1], data[j][2]>> = k => j <= i][3]]
        n_rows == IF DOMAIN d = {} THEN 0
                  ELSE 1 + CHOOSE r \in {k[1] : k \in DOMAIN d} :
                             \A k \in DOMAIN d : k[1] <= r
        n_cols == IF DOMAIN d = {} THEN 0
                  ELSE 1 + CHOOSE c \in {k[2] : k \in DOMAIN d} :
                             \A k \in DOMAIN d : k[2] <= c
    IN  Update(SparseDict(n_rows, n_cols), SetToSeq(Items(d))).sd

\* ------------------------------------------------------- dense arrays
\* A 2-d numpy array.
Cells(rows, cols) == (0..(rows - 1)) \X (0..(cols - 1))

NdArray(rows, cols, a) == [shape |-> <<rows, cols>>, a |-> a]

\* asarray(vals) for a list of equally long 1-d vectors: one row per vector.
AsArray(vals) ==
    LET rows == Len(vals)
        cols == IF vals = <<>> THEN 0 ELSE Len(vals[1])
    IN  NdArray(rows, cols, [k \in Cells(rows, cols) |-> vals[k[1] + 1][k[2] + 1]])

\* ndarray.T
ArrayT(m) ==
    NdArray(m.shape[2], m.shape[1],
            [k \in Cells(m.shape[2], m.shape[1]) |-> m.a[<<k[2], k[1]>>]])

\* m[r, :] and m[:, c] as 1-d vectors.
ArrayRow(m, r) == [j \in 1..m.shape[2] |-> m.a[<<r, j - 1>>]]

ArrayCol(m, c) == [i \in 1..m.shape[1] |-> m.a[<<i - 1, c>>]]

\* list_list_to_nparray: asarray of a list of row lists.
ListListToNpArray(data) == AsArray(data)

\* ---------------------------------------------------------------- Table
\* A metadata argument is None or a list; an entry of the list is None, a
\* dict, or something else (a value that is neither).
MdList(l) == [tag |-> "list", l |-> l]

MdDict(d) == [tag |-> "dict", d |-> d]

\* defaultdict(lambda: None) holding d: the entries of a table's metadata
\* after _cast_metadata.
DefaultDict(d) == [tag |-> "defaultdict", d |-> d]

\* isinstance(x, dict): a dict or the defaultdict subclass.
IsDict(x) == x.tag \in {"dict", "defaultdict"}

\* None as a value inside a metadata dict (the values proper are positive).
NoneValue == 0 - 1

MdOther == [tag |-> "other"]

\* list.count(None) == len(list)
AllNone(l) == \A i \in DOMAIN l : l[i] = None

\* The errors of Table.__init__, by the message of the TableException.
ErrObsCount == "Number of ObservationIds differs from matrix size!"
ErrObsDuplicate == "Duplicate ObservationIds"
ErrSampCount == "Number of SampleIds differs from matrix size!"
ErrSampDuplicate == "Duplicate SampleIds"
ErrSampMdShape == "SampleMetadata not in a compatible shape with data matrix!"
ErrObsMdShape == "ObservationMetadata not in a compatible shape with data matrix!"
ErrCast == "Unable to cast metadata"

\* Mutant: the duplicate tests are missing.
VerifyMetadataNoDuplicateTest(Data, SampleIds, ObservationIds, SampleMetadata, ObservationMetadata) ==
    LET n_obs == Data.shape[1]
        n_samp == Data.shape[2]
    IN  IF n_obs # Len(ObservationIds) THEN ErrObsCount
        ELSE IF n_samp # Len(SampleIds) THEN ErrSampCount
        ELSE IF SampleMetadata # None /\ n_samp # Len(SampleMetadata.l) THEN ErrSampMdShape
        ELSE IF ObservationMetadata # None /\ n_obs # Len(ObservationMetadata.l)
        THEN ErrObsMdShape
        ELSE ""

\* Table._verify_metadata: "" when nothing is raised.
VerifyMetadata(Data, SampleIds, ObservationIds, SampleMetadata, ObservationMetadata) ==
    LET n_obs == Data.shape[1]
        n_samp == Data.shape[2]
    IN  IF n_obs # Len(ObservationIds) THEN ErrObsCount
        ELSE IF n_obs # Cardinality(Range(ObservationIds)) THEN ErrObsDuplicate
        ELSE IF n_samp # Len(SampleIds) THEN ErrSampCount
        ELSE IF n_samp # Cardinality(Range(SampleIds)) THEN ErrSampDuplicate
        ELSE IF SampleMetadata # None /\ n_samp # Len(SampleMetadata.l) THEN ErrSampMdShape
        ELSE IF ObservationMetadata # None /\ n_obs # Len(ObservationMetadata.l)
        THEN ErrObsMdShape
        ELSE ""

\* Table._cast_metadata for one axis: an all-None list becomes None, every
\* other list a list of defaultdicts (None becomes the empty one).
CastMetadata(md) ==
    IF md = None THEN [err |-> "", md |-> None]
    ELSE IF AllNone(md.l) THEN [err |-> "", md |-> None]
    ELSE IF \E i \in DOMAIN md.l : md.l[i] # None /\ ~IsDict(md.l[i])
    THEN [err |-> ErrCast, md |-> None]
    ELSE [err |-> "",
          md |-> MdList([i \in DOMAIN md.l |->
                            IF md.l[i] = None THEN DefaultDict(EmptyDict)
                            ELSE DefaultDict(md.l[i].d)])]

\* Mutant: the positions are counted from one.
IndexListFromOne(l) ==
    [id \in Range(l) |->
        CHOOSE i \in DOMAIN l : l[i] = id /\ \A j \in DOMAIN l : l[j] = id => j <= i]

\* index_list: {l[idx]: idx}; a repeated element keeps its last position.
IndexList(l) ==
    [id \in Range(l) |->
        (CHOOSE i \in DOMAIN l : l[i] = id /\ \A j \in DOMAIN l : l[j] = id => j <= i) - 1]

NoTable == [tag |-> "NoTable"]

NoResult == [op |-> "none", err |-> "", table |-> NoTable]

\* Table.__init__ of the class with the given _biom_matrix_type and _biom_type.
Table(matrix_type, biom_type, Data, SampleIds, ObservationIds, SampleMetadata, ObservationMetadata) ==
    LET v == VerifyMetadata(Data, SampleIds, ObservationIds, SampleMetadata,
                            ObservationMetadata)
        smd == CastMetadata(SampleMetadata)
        omd == CastMetadata(ObservationMetadata)
    IN  IF v # "" THEN [err |-> v, table |-> NoTable]
        ELSE IF smd.err # "" THEN [err |-> smd.err, table |-> NoTable]
        ELSE IF omd.err # "" THEN [err |-> omd.err, table |-> NoTable]
        ELSE [err |-> "",
              table |-> [tag |-> "Table",
                         matrix_type |-> matrix_type,
                         biom_type |-> biom_type,
                         data |-> Data,
                         SampleIds |-> SampleIds,
                         ObservationIds |-> ObservationIds,
                         SampleMetadata |-> smd.md,
                         ObservationMetadata |-> omd.md,
                         sample_index |-> IndexList(SampleIds),
                         obs_index |-> IndexList(ObservationIds)]]

\* SparseTable._conv_to_np: a SparseDict vector as a dense 1-d vector, along
\* rows when there are more rows than columns and along columns otherwise.
ConvToNpSparse(v) ==
    LET by_row == v.shape[1] > v.shape[2]
        n == IF by_row THEN v.shape[1] ELSE v.shape[2]
        At(i) == {k \in DOMAIN v.items : (IF by_row THEN k[1] ELSE k[2]) = i}
    IN  [i \in 1..n |-> IF At(i - 1) = {} THEN 0
                        ELSE v.items[CHOOSE k \in At(i - 1) : TRUE]]

\* _conv_to_np of the table's class.
ConvToNp(self, v) == IF self.matrix_type = "sparse" THEN ConvToNpSparse(v) ELSE v

\* _iter_samp: the sample vectors in the backing's own type.
IterSamp(self) ==
    IF self.matrix_type = "sparse"
    THEN [c \in 1..self.data.shape[2] |-> Transpose(GetCol(self.data, c - 1).sd)]
    ELSE [c \in 1..self.data.shape[2] |-> ArrayCol(self.data, c - 1)]

\* _iter_obs: the observation vectors in the backing's own type.
IterObs(self) ==
    IF self.matrix_type = "sparse"
    THEN [r \in 1..self.data.shape[1] |-> GetRow(self.data, r - 1).sd]
    ELSE [r \in 1..self.data.shape[1] |-> ArrayRow(self.data, r - 1)]

\* The metadata entry iterSamples / iterObservations yields at a position.
MdAt(md, i) == IF md = None THEN None ELSE md.l[i]

\* Table.iterSamples(conv_to_np=True): <<values, id, metadata>> per sample.
IterSamples(self) ==
    LET vecs == IterSamp(self)
    IN  [i \in 1..Len(self.SampleIds) |->
            <<ConvToNp(self, vecs[i]), self.SampleIds[i], MdAt(self.SampleMetadata, i)>>]

\* Table.iterObservations(conv_to_np=True).
IterObservations(self) ==
    LET vecs == IterObs(self)
    IN  [i \in 1..Len(self.ObservationIds) |->
            <<ConvToNp(self, vecs[i]), self.ObservationIds[i],
              MdAt(self.ObservationMetadata, i)>>]

\* Table.sampleData / Table.observationData of a known id.
SampleData(self, id) ==
    IF self.matrix_type = "sparse"
    THEN ConvToNpSparse(GetCol(self.data, self.sample_index[id]).sd)
    ELSE ArrayCol(self.data, self.sample_index[id])

ObservationData(self, id) ==
    IF self.matrix_type = "sparse"
    THEN ConvToNpSparse(GetRow(self.data, self.obs_index[id]).sd)
    ELSE ArrayRow(self.data, self.obs_index[id])

\* _conv_to_self_type of a 1-d numpy vector: to_sparsedict's first branch for
\* a sparse table, asarray for a dense one.
ConvToSelfTypeVec(self, vals, transpose) ==
    IF self.matrix_type = "sparse"
    THEN IF transpose
         THEN NpArrayToSparseDict(ArrayT(AsArray(<<vals>>)))
         ELSE NpVectorToSparseDict(vals)
    ELSE vals

\* _conv_to_self_type of a list of vectors of the backing's own type:
\* to_sparsedict's list branches for a sparse table, asarray for a dense one.
ConvToSelfTypeList(self, vals, transpose) ==
    IF self.matrix_type = "sparse"
    THEN IF vals = <<>> THEN [err |-> "", data |-> SparseDict(0, 0)]
         ELSE LET m == ListDictToSparseDict(vals)
              IN  IF m.err # "" THEN [err |-> m.err, data |-> m.sd]
                  ELSE [err |-> "", data |-> IF transpose THEN Transpose(m.sd) ELSE m.sd]
    ELSE [err |-> "", data |-> IF transpose THEN ArrayT(AsArray(vals)) ELSE AsArray(vals)]

\* entry[key] for a metadata entry: a defaultdict(lambda: None) stores None
\* under a missing key and returns it, a plain dict raises KeyError.
Lookup(entry, key) ==
    IF key \in DOMAIN entry.d THEN [err |-> "", val |-> entry.d[key], entry |-> entry]
    ELSE IF entry.tag = "defaultdict"
    THEN [err |-> "", val |-> NoneValue, entry |-> [entry EXCEPT !.d = DictSet(@, key, NoneValue)]]
    ELSE [err |-> "KeyError", val |-> NoneValue, entry |-> entry]

\* The predicates handed to the filters: f(values, id, metadata).
Pred(f, vals, id, md) ==
    CASE f = "always" -> TRUE
      [] f = "sum_positive" -> SeqSum(vals) > 0
      [] f = "has_key" -> md # None /\ "k" \in DOMAIN md.d
      [] f = "id_S1" -> id = "S1"
      [] f = "id_O1" -> id = "O1"
      [] f = "k_is_1" -> md # None /\ Lookup(md, "k").val = 1

Preds == {"always", "sum_positive", "has_key", "id_S1", "id_O1"}

\* The metadata list after f was called on every entry: a predicate that
\* reads md["k"] leaves the key in each defaultdict that lacked it.
MdAfterPred(md, f) ==
    IF md = None \/ f # "k_is_1" THEN md
    ELSE MdList([i \in DOMAIN md.l |-> Lookup(md.l[i], "k").entry])

\* The positions, in order, of the triples a filter keeps.
RECURSIVE KeptLoop(_, _, _, _)
KeptLoop(triples, f, invert, i) ==
    IF i > Len(triples) THEN <<>>
    ELSE (IF Pred(f, triples[i][1], triples[i][2], triples[i][3]) # invert
          THEN <<i>> ELSE <<>>) \o KeptLoop(triples, f, invert, i + 1)

ErrAllSamplesFiltered == "All samples filtered out!"
ErrAllObsFiltered == "All obs filtered out!"

\* Mutant: invert is ignored.
FilterSamplesIgnoresInvert(self, f, invert) ==
    LET triples == IterSamples(self)
        kept == KeptLoop(triples, f, FALSE, 1)
        samp_vals == [n \in DOMAIN kept |-> ConvToSelfTypeVec(self, triples[kept[n]][1], FALSE)]
        data == ConvToSelfTypeList(self, samp_vals, TRUE)
    IN  IF samp_vals = <<>> THEN [err |-> ErrAllSamplesFiltered, table |-> NoTable]
        ELSE Table(self.matrix_type, self.biom_type, data.data,
                   [n \in DOMAIN kept |-> triples[kept[n]][2]], self.ObservationIds,
                   MdList([n \in DOMAIN kept |-> triples[kept[n]][3]]),
                   self.ObservationMetadata)

\* Table.filterSamples
FilterSamples(self, f, invert) ==
    LET triples == IterSamples(self)
        kept == KeptLoop(triples, f, invert, 1)
        samp_vals == [n \in DOMAIN kept |-> ConvToSelfTypeVec(self, triples[kept[n]][1], FALSE)]
        samp_metadata == [n \in DOMAIN kept |-> triples[kept[n]][3]]
        samp_ids == [n \in DOMAIN kept |-> triples[kept[n]][2]]
        data == ConvToSelfTypeList(self, samp_vals, TRUE)
    IN  IF samp_vals = <<>> THEN [err |-> ErrAllSamplesFiltered, table |-> NoTable]
        ELSE IF data.err # "" THEN [err |-> data.err, table |-> NoTable]
        ELSE Table(self.matrix_type, self.biom_type, data.data, samp_ids,
                   self.ObservationIds, MdList(samp_metadata), self.ObservationMetadata)

\* Mutant: the test for an empty result is missing.
FilterObservationsNoEmptyTest(self, f, invert) ==
    LET triples == IterObservations(self)
        kept == KeptLoop(triples, f, invert, 1)
        obs_vals == [n \in DOMAIN kept |-> ConvToSelfTypeVec(self, triples[kept[n]][1], FALSE)]
        data == ConvToSelfTypeList(self, obs_vals, FALSE)
    IN  Table(self.matrix_type, self.biom_type, data.data, self.SampleIds,
              [n \in DOMAIN kept |-> triples[kept[n]][2]], self.SampleMetadata,
              MdList([n \in DOMAIN kept |-> triples[kept[n]][3]]))

\* Table.filterObservations
FilterObservations(self, f, invert) ==
    LET triples == IterObservations(self)
        kept == KeptLoop(triples, f, invert, 1)
        obs_vals == [n \in DOMAIN kept |-> ConvToSelfTypeVec(self, triples[kept[n]][1], FALSE)]
        obs_metadata == [n \in DOMAIN kept |-> triples[kept[n]][3]]
        obs_ids == [n \in DOMAIN kept |-> triples[kept[n]][2]]
        data == ConvToSelfTypeList(self, obs_vals, FALSE)
    IN  IF obs_vals = <<>> THEN [err |-> ErrAllObsFiltered, table |-> NoTable]
        ELSE IF data.err # "" THEN [err |-> data.err, table |-> NoTable]
        ELSE Table(self.matrix_type, self.biom_type, data.data, self.SampleIds,
                   obs_ids, self.SampleMetadata, MdList(obs_metadata))

\* ---------------------------------------------------------------- merge
\* prefer_self
PreferSelf(x, y) == IF x # None THEN x ELSE y

\* The first-seen loop of _union_id_order over all_ids, from position i.
RECURSIVE UnionLoop(_, _, _, _)
UnionLoop(all_ids, i, new_order, idx) ==
    IF i > Len(all_ids) THEN new_order
    ELSE IF all_ids[i] \notin DOMAIN new_order
    THEN UnionLoop(all_ids, i + 1, DictSet(new_order, all_ids[i], idx), idx + 1)
    ELSE UnionLoop(all_ids, i + 1, new_order, idx)

\* Mutant: other's identifiers come first.
UnionIdOrderOtherFirst(a, b) == UnionLoop(b \o a, 1, EmptyDict, 0)

\* Table._union_id_order: {id: position in the merged order}.
UnionIdOrder(a, b) == UnionLoop(a \o b, 1, EmptyDict, 0)

RECURSIVE IntersectLoop(_, _, _, _, _)
IntersectLoop(a, all_b, i, new_order, idx) ==
    IF i > Len(a) THEN new_order
    ELSE IF a[i] \in all_b
    THEN IntersectLoop(a, all_b, i + 1, DictSet(new_order, a[i], idx), idx + 1)
    ELSE IntersectLoop(a, all_b, i + 1, new_order, idx)

\* Table._intersect_id_order
IntersectIdOrder(a, b) == IntersectLoop(a, Range(b), 1, EmptyDict, 0)

\* sorted(new_order.items(), key=itemgetter(1)): the ids by position.
SortedByIdx(new_order) ==
    [n \in 1..Cardinality(DOMAIN new_order) |->
        CHOOSE id \in DOMAIN new_order : new_order[id] = n - 1]

\* The value-combination functions handed to merge.
MergeF(merge_f, x, y) ==
    CASE merge_f = "add" -> x + y
      [] merge_f = "sub" -> x - y

MergeFs == {"add", "sub"}

ErrUnknownSampleMerge == "Unknown Sample merge type"
ErrUnknownObsMerge == "Unknown observation merge type"
ErrNoSamples == "No samples in resulting table!"
ErrNoObs == "No observations in resulting table!"

\* The metadata list merge builds for one axis with metadata function
\* prefer_self.
MergeMetadata(ids, self_md, self_idx, other_md, other_idx) ==
    [n \in DOMAIN ids |->
        PreferSelf(IF self_md = None \/ ids[n] \notin DOMAIN self_idx
                   THEN None ELSE self_md.l[self_idx[ids[n]] + 1],
                   IF other_md = None \/ ids[n] \notin DOMAIN other_idx
                   THEN None ELSE other_md.l[other_idx[ids[n]] + 1])]

\* Mutant: an operand that lacks the observation contributes the other
\* operand's value instead of zero.
MergeVectorNoZero(self, other, obs_id, new_samp_order, merge_f) ==
    LET other_has == obs_id \in DOMAIN other.obs_index
        self_has == obs_id \in DOMAIN self.obs_index
        other_vec == IF other_has THEN ObservationData(other, obs_id) ELSE <<>>
        self_vec == IF self_has THEN ObservationData(self, obs_id) ELSE <<>>
        OtherValue(samp_id) ==
            IF ~other_has \/ samp_id \notin DOMAIN other.sample_index THEN 0
            ELSE other_vec[other.sample_index[samp_id] + 1]
        SelfValue(samp_id) ==
            IF ~self_has \/ samp_id \notin DOMAIN self.sample_index THEN OtherValue(samp_id)
            ELSE self_vec[self.sample_index[samp_id] + 1]
    IN  [n \in 1..Cardinality(DOMAIN new_samp_order) |->
            LET samp_id == CHOOSE id \in DOMAIN new_samp_order : new_samp_order[id] = n - 1
            IN  MergeF(merge_f, SelfValue(samp_id), OtherValue(samp_id))]

\* The vector merge fills for one observation of the merged table.
MergeVector(self, other, obs_id, new_samp_order, merge_f) ==
    LET other_has == obs_id \in DOMAIN other.obs_index
        self_has == obs_id \in DOMAIN self.obs_index
        other_vec == IF other_has THEN ObservationData(other, obs_id) ELSE <<>>
        self_vec == IF self_has THEN ObservationData(self, obs_id) ELSE <<>>
        SelfValue(samp_id) ==
            IF ~self_has \/ samp_id \notin DOMAIN self.sample_index THEN 0
            ELSE self_vec[self.sample_index[samp_id] + 1]
        OtherValue(samp_id) ==
            IF ~other_has \/ samp_id \notin DOMAIN other.sample_index THEN 0
            ELSE other_vec[other.sample_index[samp_id] + 1]
    IN  [n \in 1..Cardinality(DOMAIN new_samp_order) |->
            LET samp_id == CHOOSE id \in DOMAIN new_samp_order : new_samp_order[id] = n - 1
            IN  MergeF(merge_f, SelfValue(samp_id), OtherValue(samp_id))]

\* Mutant: only an empty sample set is refused.
MergeEmptyCheckSamplesOnly(new_samp_order, new_obs_order) ==
    IF DOMAIN new_samp_order = {} THEN ErrNoSamples ELSE ""

\* merge's test of the merged identifier sets: "" when both are non-empty.
MergeEmptyCheck(new_samp_order, new_obs_order) ==
    IF DOMAIN new_samp_order = {} THEN ErrNoSamples
    ELSE IF DOMAIN new_obs_order = {} THEN ErrNoObs
    ELSE ""

\* Table.merge with the default metadata functions.
Merge(self, other, Sample, Observation, merge_f) ==
    IF Sample \notin {"union", "intersection"}
    THEN [err |-> ErrUnknownSampleMerge, table |-> NoTable]
    ELSE IF Observation \notin {"union", "intersection"}
    THEN [err |-> ErrUnknownObsMerge, table |-> NoTable]
    ELSE
    LET new_samp_order == IF Sample = "union"
                          THEN UnionIdOrder(self.SampleIds, other.SampleIds)
                          ELSE IntersectIdOrder(self.SampleIds, other.SampleIds)
        new_obs_order == IF Observation = "union"
                         THEN UnionIdOrder(self.ObservationIds, other.ObservationIds)
                         ELSE IntersectIdOrder(self.ObservationIds, other.ObservationIds)
        empty == MergeEmptyCheck(new_samp_order, new_obs_order)
        sample_ids == SortedByIdx(new_samp_order)
        sample_md == MergeMetadata(sample_ids, self.SampleMetadata, self.sample_index,
                                   other.SampleMetadata, other.sample_index)
        obs_ids == SortedByIdx(new_obs_order)
        obs_md == MergeMetadata(obs_ids, self.ObservationMetadata, self.obs_index,
                                other.ObservationMetadata, other.obs_index)
        vals == [n \in 1..Cardinality(DOMAIN new_obs_order) |->
                    ConvToSelfTypeVec(self,
                        MergeVector(self, other,
                            CHOOSE id \in DOMAIN new_obs_order : new_obs_order[id] = n - 1,
                            new_samp_order, merge_f),
                        FALSE)]
        data == ConvToSelfTypeList(self, vals, FALSE)
    IN  IF empty # "" THEN [err |-> empty, table |-> NoTable]
        ELSE IF data.err # "" THEN [err |-> data.err, table |-> NoTable]
        ELSE Table(self.matrix_type, self.biom_type, data.data, sample_ids, obs_ids,
                   MdList(sample_md), MdList(obs_md))

\* ------------------------------------------------- interchange record
Str(x) == [tag |-> "str", s |-> x]

ErrUnknownBiomType == "Unknown biom type"
ErrGeneratedBy == "Must specify a generated_by string"

\* Mutant: a zero value gets a triple too.
SparseValuesKeepsZero(obs_index, dense_values, col_index) ==
    [c \in 1..Len(dense_values) |-> <<obs_index, c - 1, dense_values[c]>>]

\* The sparse data rows of one observation: [obs_index, col_index, val] for
\* every nonzero value, by column.
RECURSIVE SparseValues(_, _, _)
SparseValues(obs_index, dense_values, col_index) ==
    IF col_index >= Len(dense_values) THEN <<>>
    ELSE (IF dense_values[col_index + 1] # 0
          THEN <<<<obs_index, col_index, dense_values[col_index + 1]>>>>
          ELSE <<>>) \o SparseValues(obs_index, dense_values, col_index + 1)

RECURSIVE RecordData(_, _, _)
RecordData(matrix_type, observations, n) ==
    IF n > Len(observations) THEN <<>>
    ELSE (IF matrix_type = "dense"
          THEN <<observations[n][1]>>
          ELSE SparseValues(n - 1, observations[n][1], 0))
         \o RecordData(matrix_type, observations, n + 1)

\* Table.getBiomFormatObject; the date field, a timestamp, is left out.
GetBiomFormatObject(self, generated_by) ==
    IF self.biom_type = "None"
    THEN [err |-> ErrUnknownBiomType, record |-> None]
    ELSE IF generated_by.tag # "str"
    THEN [err |-> ErrGeneratedBy, record |-> None]
    ELSE LET observations == IterObservations(self)
             samples == IterSamples(self)
         IN  [err |-> "",
              record |->
                [id |-> None,
                 format |-> "Biological Observation Matrix 0.9dev",
                 format_url |-> "http://biom-format.org",
                 generated_by |-> generated_by.s,
                 type |-> self.biom_type,
                 matrix_type |-> self.matrix_type,
                 matrix_element_type |->
                     IF self.data.shape[1] > 0 /\ self.data.shape[2] > 0 THEN "float"
                     ELSE "int",
                 shape |-> self.data.shape,
                 rows |-> [n \in DOMAIN observations |->
                              [id |-> observations[n][2], metadata |-> observations[n][3]]],
                 data |-> RecordData(self.matrix_type, observations, 1),
                 columns |-> [n \in DOMAIN samples |->
                                 [id |-> samples[n][2], metadata |-> samples[n][3]]]]]

\* json.dumps(obj, sort_keys=True, indent=4) of a record: its members as
\* <<key, value>> in the order of the keys.
DumpsSorted(obj) ==
    <<<<"columns", obj.columns>>, <<"data", obj.data>>, <<"format", obj.format>>,
      <<"format_url", obj.format_url>>, <<"generated_by", obj.generated_by>>,
      <<"id", obj.id>>, <<"matrix_element_type", obj.matrix_element_type>>,
      <<"matrix_type", obj.matrix_type>>, <<"rows", obj.rows>>, <<"shape", obj.shape>>,
      <<"type", obj.type>>>>

\* A call self.getBiomFormatObject(*args): the method takes exactly one
\* argument besides self, any other number raises TypeError.
CallGetBiomFormatObject(self, args) ==
    IF Len(args) # 1 THEN [err |-> "TypeError", record |-> None]
    ELSE GetBiomFormatObject(self, args[1])

\* Table.getBiomFormatPrettyPrint
GetBiomFormatPrettyPrint(self) ==
    LET r == CallGetBiomFormatObject(self, <<>>)
    IN  IF r.err # "" THEN [err |-> r.err, json |-> None]
        ELSE [err |-> "", json |-> DumpsSorted(r.record)]

\* table_factory for data given as a list of lists, with the constructor of
\* the given matrix type and table kind.
TableFactory(data, sample_ids, observation_ids, sample_metadata, observation_metadata, matrix_type, biom_type) ==
    IF data = <<>>
    THEN [err |-> "IndexError", table |-> NoTable]
    ELSE IF matrix_type = "sparse"
    THEN Table(matrix_type, biom_type, ListListToSparseDict(data), sample_ids,
               observation_ids, sample_metadata, observation_metadata)
    ELSE Table(matrix_type, biom_type, ListListToNpArray(data), sample_ids,
               observation_ids, sample_metadata, observation_metadata)

\* The table rebuilt from a record: its data, row ids and metadata and column
\* ids and metadata handed to table_factory.
FromRecord(record) ==
    TableFactory(record.data,
                 [n \in DOMAIN record.columns |-> record.columns[n].id],
                 [n \in DOMAIN record.rows |-> record.rows[n].id],
                 MdList([n \in DOMAIN record.columns |-> record.columns[n].metadata]),
                 MdList([n \in DOMAIN record.rows |-> record.rows[n].metadata]),
                 record.matrix_type, record.type)

\* SparseTable._data_equality / DenseTable._data_equality for two tables of
\* one class.
DataEquality(self, other) ==
    IF self.matrix_type = "sparse"
    THEN self.data.items = other.data.items
    ELSE self.data.a = other.data.a

\* Table.__eq__
TableEq(self, other) ==
    /\ self.ObservationIds = other.ObservationIds
    /\ self.SampleIds = other.SampleIds
    /\ self.ObservationMetadata = other.ObservationMetadata
    /\ self.SampleMetadata = other.SampleMetadata
    /\ DataEquality(self, other)

\* ---------------------------------------------------------------- sorting
\* str(item) as character codes, for the identifiers of the tables under test.
Chars(item) ==
    CASE item = "S1" -> <<83, 49>>
      [] item = "S2" -> <<83, 50>>
      [] item = "S3" -> <<83, 51>>
      [] item = "S10" -> <<83, 49, 48>>
      [] item = "O1" -> <<79, 49>>
      [] item = "O2" -> <<79, 50>>

IsDigit(c) == c \in 48..57

\* The integer a run of digits s[i..] denotes, continued from acc, and the
\* position after the run.
RECURSIVE DigitRun(_, _, _)
DigitRun(s, i, acc) ==
    IF i <= Len(s) /\ IsDigit(s[i]) THEN DigitRun(s, i + 1, 10 * acc + (s[i] - 48))
    ELSE [value |-> acc, next |-> i]

\* _natsort_key's chunks: re.split at the digit runs, a run as (0, number) and
\* the text between runs as (1, text). The identifiers hold no '.', so no run
\* is read as a float.
RECURSIVE NatsortChunks(_, _, _)
NatsortChunks(s, i, text) ==
    IF i > Len(s) THEN <<[kind |-> 1, num |-> 0, text |-> text]>>
    ELSE IF IsDigit(s[i])
    THEN LET run == DigitRun(s, i, 0)
         IN  <<[kind |-> 1, num |-> 0, text |-> text],
               [kind |-> 0, num |-> run.value, text |-> <<>>]>>
             \o NatsortChunks(s, run.next, <<>>)
    ELSE NatsortChunks(s, i + 1, Append(text, s[i]))

\* _natsort_key
NatsortKey(item) == [chunks |-> NatsortChunks(Chars(item), 1, <<>>), item |-> Chars(item)]

\* The order of two strings.
RECURSIVE CodesLess(_, _)
CodesLess(a, b) ==
    IF b = <<>> THEN FALSE
    ELSE IF a = <<>> THEN TRUE
    ELSE IF a[1] # b[1] THEN a[1] < b[1]
    ELSE CodesLess(Tail(a), Tail(b))

\* The order of two chunks, as tuples.
ChunkLess(a, b) ==
    IF a.kind # b.kind THEN a.kind < b.kind
    ELSE IF a.kind = 0 THEN a.num < b.num
    ELSE CodesLess(a.text, b.text)

\* The order of two chunk lists.
RECURSIVE ChunksLess(_, _)
ChunksLess(a, b) ==
    IF b = <<>> THEN FALSE
    ELSE IF a = <<>> THEN TRUE
    ELSE IF a[1] # b[1] THEN ChunkLess(a[1], b[1])
    ELSE ChunksLess(Tail(a), Tail(b))

\* The order of two keys (chunks, item).
KeyLess(a, b) ==
    \/ ChunksLess(a.chunks, b.chunks)
    \/ a.chunks = b.chunks /\ CodesLess(a.item, b.item)

\* list.sort(key=_natsort_key), stable: x goes behind every element whose key
\* is not greater than its own.
RECURSIVE SortInsert(_, _)
SortInsert(sorted, x) ==
    IF sorted = <<>> THEN <<x>>
    ELSE IF KeyLess(NatsortKey(x), NatsortKey(sorted[1])) THEN <<x>> \o sorted
    ELSE <<sorted[1]>> \o SortInsert(Tail(sorted), x)

RECURSIVE SortLoop(_, _)
SortLoop(sorted, rest) ==
    IF rest = <<>> THEN sorted
    ELSE SortLoop(SortInsert(sorted, rest[1]), Tail(rest))

\* Mutant: the first element is moved to the end.
NatsortRotates(seq) ==
    IF seq = <<>> THEN <<>> ELSE Tail(seq) \o <<seq[1]>>

\* natsort
Natsort(seq) ==
    SortLoop(<<>>, seq)

\* Table.sortSampleOrder: the columns in the given order, handed to
\* _conv_to_self_type without transpose.
SortSampleOrder(self, sample_order) ==
    IF \E i \in DOMAIN sample_order : sample_order[i] \notin DOMAIN self.sample_index
    THEN [err |-> "KeyError", table |-> NoTable]
    ELSE LET cur_idx == [i \in DOMAIN sample_order |-> self.sample_index[sample_order[i]]]
             vals == [i \in DOMAIN sample_order |->
                         IF self.matrix_type = "sparse"
                         THEN GetCol(self.data, cur_idx[i]).sd
                         ELSE ArrayCol(self.data, cur_idx[i])]
             samp_md == IF self.SampleMetadata # None /\ sample_order # <<>>
                        THEN MdList([i \in DOMAIN sample_order |->
                                        self.SampleMetadata.l[cur_idx[i] + 1]])
                        ELSE None
             data == ConvToSelfTypeList(self, vals, FALSE)
         IN  IF data.err # "" THEN [err |-> data.err, table |-> NoTable]
             ELSE Table(self.matrix_type, self.biom_type, data.data, sample_order,
                        self.ObservationIds, samp_md, self.ObservationMetadata)

\* Table.sortObservationOrder: the rows in the given order.
SortObservationOrder(self, obs_order) ==
    IF \E i \in DOMAIN obs_order : obs_order[i] \notin DOMAIN self.obs_index
    THEN [err |-> "KeyError", table |-> NoTable]
    ELSE LET cur_idx == [i \in DOMAIN obs_order |-> self.obs_index[obs_order[i]]]
             vals == [i \in DOMAIN obs_order |->
                         IF self.matrix_type = "sparse"
                         THEN GetRow(self.data, cur_idx[i]).sd
                         ELSE ArrayRow(self.data, cur_idx[i])]
             obs_md == IF self.ObservationMetadata # None /\ obs_order # <<>>
                       THEN MdList([i \in DOMAIN obs_order |->
                                       self.ObservationMetadata.l[cur_idx[i] + 1]])
                       ELSE None
             data == ConvToSelfTypeList(self, vals, FALSE)
         IN  IF data.err # "" THEN [err |-> data.err, table |-> NoTable]
             ELSE Table(self.matrix_type, self.biom_type, data.data, self.SampleIds,
                        obs_order, self.SampleMetadata, obs_md)

\* Table.sortBySampleId / Table.sortByObservationId with the default sort_f.
SortBySampleId(self) == SortSampleOrder(self, Natsort(self.SampleIds))

SortByObservationId(self) == SortObservationOrder(self, Natsort(self.ObservationIds))

\* ------------------------------------------- values, metadata, copies
ErrUnknownObsId == "ObservationId %s not found!"
ErrUnknownSampleId == "SampleId %s not found!"

\* Table.getValueByIds: self._data[row, col] behind the two UnknownID tests.
GetValueByIds(self, obs_id, samp_id) ==
    IF obs_id \notin DOMAIN self.obs_index THEN [err |-> ErrUnknownObsId, val |-> 0]
    ELSE IF samp_id \notin DOMAIN self.sample_index
    THEN [err |-> ErrUnknownSampleId, val |-> 0]
    ELSE LET args == <<self.obs_index[obs_id], self.sample_index[samp_id]>>
         IN  IF self.matrix_type = "sparse" THEN GetItem(self.data, args)
             ELSE [err |-> "", val |-> self.data.a[args]]

\* Mutant: the sample id is not tested and falls on the first sample.
SetValueByIdsNoSampleTest(self, obs_id, samp_id, val) ==
    IF obs_id \notin DOMAIN self.obs_index THEN [err |-> ErrUnknownObsId, table |-> self]
    ELSE LET col == IF samp_id \in DOMAIN self.sample_index
                    THEN self.sample_index[samp_id] ELSE 0
             args == <<self.obs_index[obs_id], col>>
         IN  IF self.matrix_type = "sparse"
             THEN [err |-> "", table |-> [self EXCEPT !.data = SetItem(@, args, val).sd]]
             ELSE [err |-> "", table |-> [self EXCEPT !.data.a[args] = val]]

\* Table.setValueByIds: self._data[row, col] = val behind the same tests; the
\* table is the receiver after the call.
SetValueByIds(self, obs_id, samp_id, val) ==
    IF obs_id \notin DOMAIN self.obs_index THEN [err |-> ErrUnknownObsId, table |-> self]
    ELSE IF samp_id \notin DOMAIN self.sample_index
    THEN [err |-> ErrUnknownSampleId, table |-> self]
    ELSE LET args == <<self.obs_index[obs_id], self.sample_index[samp_id]>>
         IN  IF self.matrix_type = "sparse"
             THEN LET r == SetItem(self.data, args, val)
                  IN  [err |-> r.err, table |-> [self EXCEPT !.data = r.sd]]
             ELSE [err |-> "", table |-> [self EXCEPT !.data.a[args] = val]]

\* The loop of addSampleMetadata / addObservationMetadata over md.items(),
\* taken in the order `order`: each entry is updated in place, and an id the
\* axis lacks ends the loop with the entries updated so far.
RECURSIVE AddMetadataLoop(_, _, _, _, _)
AddMetadataLoop(l, index, md, order, unknown) ==
    IF order = <<>> THEN [err |-> "", l |-> l]
    ELSE IF order[1] \notin DOMAIN index THEN [err |-> unknown, l |-> l]
    ELSE AddMetadataLoop([l EXCEPT ![index[order[1]] + 1].d = DictUpdate(@, md[order[1]])],
                         index, md, Tail(order), unknown)

\* Table.addSampleMetadata(md), md = {sample_id: {key: value}}; a table
\* without sample metadata takes the caller's dicts as they are.
AddSampleMetadata(self, md, order) ==
    IF self.SampleMetadata # None
    THEN LET r == AddMetadataLoop(self.SampleMetadata.l, self.sample_index, md, order,
                                  ErrUnknownSampleId)
         IN  [err |-> r.err, table |-> [self EXCEPT !.SampleMetadata = MdList(r.l)]]
    ELSE IF \E i \in DOMAIN self.SampleIds : self.SampleIds[i] \notin DOMAIN md
    THEN [err |-> "KeyError", table |-> self]
    ELSE [err |-> "",
          table |-> [self EXCEPT !.SampleMetadata =
                        MdList([i \in DOMAIN self.SampleIds |-> MdDict(md[self.SampleIds[i]])])]]

\* Table.addObservationMetadata(md)
AddObservationMetadata(self, md, order) ==
    IF self.ObservationMetadata # None
    THEN LET r == AddMetadataLoop(self.ObservationMetadata.l, self.obs_index, md, order,
                                  ErrUnknownObsId)
         IN  [err |-> r.err, table |-> [self EXCEPT !.ObservationMetadata = MdList(r.l)]]
    ELSE IF \E i \in DOMAIN self.ObservationIds : self.ObservationIds[i] \notin DOMAIN md
    THEN [err |-> "KeyError", table |-> self]
    ELSE [err |-> "",
          table |-> [self EXCEPT !.ObservationMetadata =
                        MdList([i \in DOMAIN self.ObservationIds |->
                                   MdDict(md[self.ObservationIds[i]])])]]

\* self._data.copy(): ndarray.copy gives an equal array; SparseDict inherits
\* dict.copy, which gives a plain dict of the items, without shape or dtype.
DataCopy(self) ==
    IF self.matrix_type = "sparse" THEN [tag |-> "dict", items |-> self.data.items]
    ELSE self.data

\* Table.copy: the constructor of the receiver's class on the copied matrix,
\* slices of the id lists and the receiver's metadata; the constructor reads
\* Data.dtype first.
Copy(self) ==
    LET Data == DataCopy(self)
    IN  IF "shape" \notin DOMAIN Data THEN [err |-> "AttributeError", table |-> NoTable]
        ELSE Table(self.matrix_type, self.biom_type, Data, self.SampleIds,
                   self.ObservationIds, self.SampleMetadata, self.ObservationMetadata)

\* ------------------------------------------------- transformation, binning
\* The functions handed to the transforms, f(values, id, metadata): the
\* doubled vector, and normObservationByMetadata's obs_v / obs_md[key]. The
\* metadata values of the tables under test are 1, so the quotient is exact.
TransformF(f, v, id, md) ==
    IF f.name = "double" THEN [err |-> "", vec |-> [i \in DOMAIN v |-> 2 * v[i]], md |-> md]
    ELSE IF md = None THEN [err |-> "TypeError", vec |-> v, md |-> md]
    ELSE LET l == Lookup(md, f.key)
         IN  IF l.err # "" THEN [err |-> l.err, vec |-> v, md |-> l.entry]
             ELSE IF l.val = NoneValue THEN [err |-> "TypeError", vec |-> v, md |-> l.entry]
             ELSE [err |-> "", vec |-> [i \in DOMAIN v |-> v[i] \div l.val], md |-> l.entry]

TransformFs == {[name |-> "double"], [name |-> "by_metadata", key |-> "k"]}

\* The loop of a transform from position i: the vectors f returned so far
\* and the metadata entries as the calls of f left them; the first failure
\* of f ends the loop.
RECURSIVE TransformLoop(_, _, _, _, _)
TransformLoop(triples, f, i, vecs, mds) ==
    IF i > Len(triples) THEN [err |-> "", vecs |-> vecs, mds |-> mds]
    ELSE LET r == TransformF(f, triples[i][1], triples[i][2], triples[i][3])
         IN  IF r.err # "" THEN [err |-> r.err, vecs |-> vecs, mds |-> [mds EXCEPT ![i] = r.md]]
             ELSE TransformLoop(triples, f, i + 1, Append(vecs, r.vec),
                                [mds EXCEPT ![i] = r.md])

\* Table.transformSamples; `self` is the receiver after the call.
TransformSamples(self, f) ==
    LET triples == IterSamples(self)
        loop == TransformLoop(triples, f, 1, <<>>, [i \in DOMAIN triples |-> triples[i][3]])
        after == IF self.SampleMetadata = None THEN self
                 ELSE [self EXCEPT !.SampleMetadata = MdList(loop.mds)]
        new_samp_v == [i \in DOMAIN loop.vecs |-> ConvToSelfTypeVec(self, loop.vecs[i], FALSE)]
        data == ConvToSelfTypeList(self, new_samp_v, TRUE)
    IN  IF loop.err # "" THEN [err |-> loop.err, table |-> NoTable, self |-> after]
        ELSE IF data.err # "" THEN [err |-> data.err, table |-> NoTable, self |-> after]
        ELSE LET r == Table(self.matrix_type, self.biom_type, data.data, self.SampleIds,
                            self.ObservationIds, after.SampleMetadata,
                            self.ObservationMetadata)
             IN  [err |-> r.err, table |-> r.table, self |-> after]

\* Table.transformObservations
TransformObservations(self, f) ==
    LET triples == IterObservations(self)
        loop == TransformLoop(triples, f, 1, <<>>, [i \in DOMAIN triples |-> triples[i][3]])
        after == IF self.ObservationMetadata = None THEN self
                 ELSE [self EXCEPT !.ObservationMetadata = MdList(loop.mds)]
        new_obs_v == [i \in DOMAIN loop.vecs |-> ConvToSelfTypeVec(self, loop.vecs[i], FALSE)]
        data == ConvToSelfTypeList(self, new_obs_v, FALSE)
    IN  IF loop.err # "" THEN [err |-> loop.err, table |-> NoTable, self |-> after]
        ELSE IF data.err # "" THEN [err |-> data.err, table |-> NoTable, self |-> after]
        ELSE LET r == Table(self.matrix_type, self.biom_type, data.data, self.SampleIds,
                            self.ObservationIds, self.SampleMetadata,
                            after.ObservationMetadata)
             IN  [err |-> r.err, table |-> r.table, self |-> after]

\* Table.normObservationByMetadata
NormObservationByMetadata(self, obs_metadata_id) ==
    TransformObservations(self, [name |-> "by_metadata", key |-> obs_metadata_id])

\* A Python list and a Python tuple as bin keys; a list is not Hashable.
PyList(l) == [tag |-> "pylist", l |-> l]

PyTuple(l) == [tag |-> "tuple", l |-> l]

\* The functions handed to the bins, f(metadata): one bin for all, the
\* value of md["k"], and "k_seq", which returns the list [0] where md["k"]
\* is 1 and the tuple (0,) elsewhere.  hashable is isinstance(bin, Hashable).
BinF(f, md) ==
    IF f = "const" THEN [err |-> "", bin |-> 0, hashable |-> TRUE, md |-> md]
    ELSE IF md = None THEN [err |-> "TypeError", bin |-> 0, hashable |-> TRUE, md |-> md]
    ELSE LET l == Lookup(md, "k")
         IN  IF f = "k" THEN [err |-> l.err, bin |-> l.val, hashable |-> TRUE, md |-> l.entry]
             ELSE IF l.val = 1
             THEN [err |-> l.err, bin |-> PyList(<<0>>), hashable |-> FALSE, md |-> l.entry]
             ELSE [err |-> l.err, bin |-> PyTuple(<<0>>), hashable |-> TRUE, md |-> l.entry]

BinFs == {"const", "k", "k_seq"}

\* Mutant: a key that is not Hashable is kept as it is.
BinKeyAsReturned(bin, hashable) ==
    bin

\* The key a bin method files a sample under: tuple(bin) unless bin is
\* Hashable.
BinKey(bin, hashable) ==
    IF ~hashable THEN PyTuple(bin.l) ELSE bin

\* The first loop of a bin method from position i: the bin of every position
\* and the metadata entries as the calls of f left them.
RECURSIVE BinLoop(_, _, _, _, _)
BinLoop(triples, f, i, bins, mds) ==
    IF i > Len(triples) THEN [err |-> "", bins |-> bins, mds |-> mds]
    ELSE LET r == BinF(f, triples[i][3])
         IN  IF r.err # "" THEN [err |-> r.err, bins |-> bins, mds |-> [mds EXCEPT ![i] = r.md]]
             ELSE BinLoop(triples, f, i + 1, Append(bins, BinKey(r.bin, r.hashable)),
                          [mds EXCEPT ![i] = r.md])

\* The positions of a bin, in order.
RECURSIVE BinPositions(_, _, _)
BinPositions(bins, b, i) ==
    IF i > Len(bins) THEN <<>>
    ELSE (IF bins[i] = b THEN <<i>> ELSE <<>>) \o BinPositions(bins, b, i + 1)

\* Table.binSamplesByMetadata, iterated to its end: the table of every bin.
BinSamplesByMetadata(self, f) ==
    LET triples == IterSamples(self)
        vecs == IterSamp(self)
        loop == BinLoop(triples, f, 1, <<>>, [i \in DOMAIN triples |-> triples[i][3]])
        after == IF self.SampleMetadata = None THEN self
                 ELSE [self EXCEPT !.SampleMetadata = MdList(loop.mds)]
        TableOf(b) ==
            LET pos == BinPositions(loop.bins, b, 1)
                data == ConvToSelfTypeList(self, [n \in DOMAIN pos |-> vecs[pos[n]]], TRUE)
            IN  IF data.err # "" THEN [err |-> data.err, table |-> NoTable]
                ELSE Table(self.matrix_type, self.biom_type, data.data,
                           [n \in DOMAIN pos |-> triples[pos[n]][2]], self.ObservationIds,
                           MdList([n \in DOMAIN pos |-> loop.mds[pos[n]]]),
                           self.ObservationMetadata)
    IN  IF loop.err # "" THEN [err |-> loop.err, bins |-> EmptyDict, self |-> after]
        ELSE [err |-> "", bins |-> [b \in Range(loop.bins) |-> TableOf(b)], self |-> after]

\* Table.binObservationsByMetadata, iterated to its end.
BinObservationsByMetadata(self, f) ==
    LET triples == IterObservations(self)
        vecs == IterObs(self)
        loop == BinLoop(triples, f, 1, <<>>, [i \in DOMAIN triples |-> triples[i][3]])
        after == IF self.ObservationMetadata = None THEN self
                 ELSE [self EXCEPT !.ObservationMetadata = MdList(loop.mds)]
        TableOf(b) ==
            LET pos == BinPositions(loop.bins, b, 1)
                data == ConvToSelfTypeList(self, [n \in DOMAIN pos |-> vecs[pos[n]]], FALSE)
            IN  IF data.err # "" THEN [err |-> data.err, table |-> NoTable]
                ELSE Table(self.matrix_type, self.biom_type, data.data, self.SampleIds,
                           [n \in DOMAIN pos |-> triples[pos[n]][2]], self.SampleMetadata,
                           MdList([n \in DOMAIN pos |-> loop.mds[pos[n]]]))
    IN  IF loop.err # "" THEN [err |-> loop.err, bins |-> EmptyDict, self |-> after]
        ELSE [err |-> "", bins |-> [b \in Range(loop.bins) |-> TableOf(b)], self |-> after]

\* ---------------------------------------------------------------- nonzero
\* Table.iterObservationData: the observation vectors as dense vectors.
IterObservationData(self) ==
    LET vecs == IterObs(self)
    IN  [i \in DOMAIN vecs |-> ConvToNp(self, vecs[i])]

\* ndarray.nonzero()[0] of a 1-d vector, 0-based and ascending, from
\* position i.
RECURSIVE NonzeroPositions(_, _)
NonzeroPositions(v, i) ==
    IF i > Len(v) THEN <<>>
    ELSE (IF v[i] # 0 THEN <<i - 1>> ELSE <<>>) \o NonzeroPositions(v, i + 1)

\* The pairs nonzero yields from the observation at position o_idx on.
RECURSIVE NonzeroLoop(_, _, _)
NonzeroLoop(self, vecs, o_idx) ==
    IF o_idx >= Len(vecs) THEN <<>>
    ELSE LET s_idxs == NonzeroPositions(vecs[o_idx + 1], 1)
         IN  [n \in DOMAIN s_idxs |->
                 <<self.ObservationIds[o_idx + 1], self.SampleIds[s_idxs[n] + 1]>>]
             \o NonzeroLoop(self, vecs, o_idx + 1)

\* Mutant: the first observation is skipped.
NonzeroSkipsFirst(self) ==
    NonzeroLoop(self, IterObservationData(self), 1)

\* Table.nonzero, iterated to its end.
Nonzero(self) ==
    NonzeroLoop(self, IterObservationData(self), 0)

\* ------------------------------------------------------ tables under test
\* Identifiers and metadata the tables under test are built from.
ObsIdPool == {"O1", "O2"}
SampleIdPool == {"S1", "S2"}
MergeSampleIdPool == {"S1", "S2", "S3"}
BiomTypes == {"OTU table"}
MatrixTypes == {"sparse", "dense"}

\* The sequences without repetition over S of length 1..n.
InjSeqs(S, n) ==
    UNION {{q \in [1..k -> S] : \A i, j \in 1..k : q[i] = q[j] => i = j} : k \in 1..n}

\* The metadata arguments for an axis of length n: None, or a list of None
\* and {"k": v} entries.
MdArgs(n, v) == {None} \cup {MdList(l) : l \in [1..n -> {None, MdDict([k |-> v])}]}

\* table_factory for a numpy array.
TableFromArray(matrix_type, biom_type, m, sids, oids, smd, omd) ==
    Table(matrix_type, biom_type,
          IF matrix_type = "sparse" THEN NpArrayToSparseDict(m) ELSE m,
          sids, oids, smd, omd)

\* ------------------------------------------------- the store under test
NoOp == [op |-> "init", args |-> <<0, 0>>, value |-> 0, had |-> FALSE, err |-> "", val |-> 0]

\* Coordinates a caller may pass: inside every shape under test, and one
\* step below and above it on each axis.
ArgRows == (0 - 1)..MaxRows
ArgCols == (0 - 1)..MaxCols

InShape(self, args) ==
    /\ args[1] \in 0..(self.shape[1] - 1)
    /\ args[2] \in 0..(self.shape[2] - 1)

\* sd[row, col] = value
Set(row, col, value) ==
    LET r == SetItem(sd, <<row, col>>, value)
    IN  /\ sd' = r.sd
        /\ written' = IF r.err = "" THEN [written EXCEPT ![<<row, col>>] = value]
                                    ELSE written
        /\ lastOp' = [op |-> "set", args |-> <<row, col>>, value |-> value,
                      had |-> <<row, col>> \in DOMAIN sd.items,
                      err |-> r.err, val |-> 0]
        /\ UNCHANGED <<t, u, res>>

\* sd[row, col]
Get(row, col) ==
    LET r == GetItem(sd, <<row, col>>)
    IN  /\ lastOp' = [op |-> "get", args |-> <<row, col>>, value |-> 0, had |-> FALSE,
                      err |-> r.err, val |-> r.val]
        /\ UNCHANGED <<sd, written, t, u, res>>

StoreInit ==
    /\ \E rows \in 0..MaxRows, cols \in 0..MaxCols :
          /\ sd = SparseDict(rows, cols)
          /\ written = [k \in (0..(rows - 1)) \X (0..(cols - 1)) |-> 0]
    /\ lastOp = NoOp
    /\ t = NoTable
    /\ u = NoTable
    /\ res = NoResult

StoreNext ==
    \/ \E row \in ArgRows, col \in ArgCols, value \in 0..MaxVal : Set(row, col, value)
    \/ \E row \in ArgRows, col \in ArgCols : Get(row, col)

SpecStore == StoreInit /\ [][StoreNext]_vars

\* ------------------------------------------------ construction under test
\* All sequences over S of length 0..n.
Seqs(S, n) == UNION {[1..k -> S] : k \in 0..n}

\* Metadata arguments of any length up to n, entries of every kind.
AnyMdArgs(n) ==
    {None} \cup {MdList(l) : l \in Seqs({None, MdDict([k |-> 1]), MdOther}, n)}

IdleStore ==
    /\ sd = SparseDict(0, 0)
    /\ written = EmptyDict
    /\ lastOp = NoOp

\* The arguments of the constructor call to come.
ConstructInit ==
    /\ IdleStore
    /\ t = NoTable
    /\ u = NoTable
    /\ \E matrix_type \in MatrixTypes, rows \in 0..MaxIds, cols \in 0..MaxIds,
          sids \in Seqs(SampleIdPool, MaxIds), oids \in Seqs(ObsIdPool, MaxIds),
          smd \in AnyMdArgs(MaxMd), omd \in AnyMdArgs(MaxMd) :
        res = [op |-> "call", err |-> "", table |-> NoTable,
               args |-> [matrix_type |-> matrix_type, rows |-> rows, cols |-> cols,
                         sids |-> sids, oids |-> oids, smd |-> smd, omd |-> omd]]

\* constructor(Data, SampleIds, ObservationIds, SampleMetadata, ObservationMetadata)
\* on an all-zero matrix of the given shape.
Construct ==
    /\ res.op = "call"
    /\ LET a == res.args
           Data == IF a.matrix_type = "sparse" THEN SparseDict(a.rows, a.cols)
                   ELSE NdArray(a.rows, a.cols, [k \in Cells(a.rows, a.cols) |-> 0])
           r == Table(a.matrix_type, "OTU table", Data, a.sids, a.oids, a.smd, a.omd)
       IN  res' = [op |-> "construct", err |-> r.err, table |-> r.table, args |-> a]
    /\ UNCHANGED <<sd, written, lastOp, t, u>>

ConstructNext == Construct

SpecConstruct == ConstructInit /\ [][ConstructNext]_vars

\* ------------------------------------------------------ one table under test
Matrices(rows, cols) ==
    {[shape |-> <<rows, cols>>, a |-> f] :
        f \in [(0..(rows - 1)) \X (0..(cols - 1)) -> 0..MaxCount]}

Init ==
    /\ IdleStore
    /\ u = NoTable
    /\ res = NoResult
    /\ \E matrix_type \in MatrixTypes, biom_type \in BiomTypes,
          oids \in InjSeqs(ObsIdPool, Cardinality(ObsIdPool)),
          sids \in InjSeqs(SampleIdPool, Cardinality(SampleIdPool)) :
        \E m \in Matrices(Len(oids), Len(sids)),
           smd \in MdArgs(Len(sids), 1), omd \in MdArgs(Len(oids), 1) :
            t = TableFromArray(matrix_type, biom_type, m, sids, oids, smd, omd).table

\* t.filterSamples(f, invert); the calls of f may leave keys in the receiver's
\* metadata entries, and the table is built from the entries so left.
FilterSamplesOp(f, invert) ==
    LET Returns(after, r) ==
            /\ t' = after
            /\ res' = [op |-> "filterSamples", err |-> r.err, table |-> r.table,
                       f |-> f, invert |-> invert, before |-> t]
        Calls(after) == Returns(after, FilterSamples(after, f, invert))
    IN  /\ res = NoResult
        /\ Calls([t EXCEPT !.SampleMetadata = MdAfterPred(@, f)])
        /\ UNCHANGED <<sd, written, lastOp, u>>

\* t.filterObservations(f, invert)
FilterObservationsOp(f, invert) ==
    LET Returns(after, r) ==
            /\ t' = after
            /\ res' = [op |-> "filterObservations", err |-> r.err, table |-> r.table,
                       f |-> f, invert |-> invert, before |-> t]
        Calls(after) == Returns(after, FilterObservations(after, f, invert))
    IN  /\ res = NoResult
        /\ Calls([t EXCEPT !.ObservationMetadata = MdAfterPred(@, f)])
        /\ UNCHANGED <<sd, written, lastOp, u>>

\* table_factory(...) of t.getBiomFormatObject("x")
RoundTrip ==
    LET rec == GetBiomFormatObject(t, Str("x"))
        r == IF rec.err # "" THEN [err |-> rec.err, table |-> NoTable]
             ELSE FromRecord(rec.record)
    IN  /\ res = NoResult
        /\ res' = [op |-> "roundTrip", err |-> r.err, table |-> r.table,
                   record |-> rec.record]
        /\ UNCHANGED <<sd, written, lastOp, t, u>>

Next ==
    \/ \E f \in Preds, invert \in BOOLEAN : FilterSamplesOp(f, invert)
    \/ \E f \in Preds, invert \in BOOLEAN : FilterObservationsOp(f, invert)
    \/ RoundTrip

Spec == Init /\ [][Next]_vars

\* ------------------------------------------------------ two tables to merge
\* A matrix whose cells are scale * (base + the cell's row-major position):
\* the cells of one table differ, and with two scales a sum tells both
\* operands.
Coded(rows, cols, base, scale) ==
    [shape |-> <<rows, cols>>,
     a |-> [k \in (0..(rows - 1)) \X (0..(cols - 1)) |->
               scale * (base + k[1] * cols + k[2])]]

\* Tables without metadata over three sample ids.
ValueTables(bases, scale) ==
    {TableFromArray(matrix_type, "OTU table", Coded(Len(oids), Len(sids), base, scale),
                    sids, oids, None, None).table :
        matrix_type \in MatrixTypes, base \in bases,
        oids \in InjSeqs(ObsIdPool, 2), sids \in InjSeqs(MergeSampleIdPool, 2)}

\* One-observation tables with every metadata argument, entries {"k": v}.
MdTables(scale, v) ==
    UNION {{TableFromArray("sparse", "OTU table", Coded(Len(oids), Len(sids), 1, scale),
                           sids, oids, smd, omd).table :
               smd \in MdArgs(Len(sids), v), omd \in MdArgs(Len(oids), v)} :
           oids \in InjSeqs(ObsIdPool, 1), sids \in InjSeqs(SampleIdPool, 2)}

MergeInit ==
    /\ IdleStore
    /\ res = NoResult
    /\ \/ t \in ValueTables({0, 1}, 1) /\ u \in ValueTables({0}, 5)
       \/ t \in MdTables(1, 1) /\ u \in MdTables(5, 2)

\* t.merge(u, Sample, Observation, merge_f)
MergeOp(Sample, Observation, merge_f) ==
    LET r == Merge(t, u, Sample, Observation, merge_f)
    IN  /\ res = NoResult
        /\ res' = [op |-> "merge", err |-> r.err, table |-> r.table,
                   Sample |-> Sample, Observation |-> Observation, merge_f |-> merge_f]
        /\ UNCHANGED <<sd, written, lastOp, t, u>>

MergeNext ==
    \E Sample \in {"union", "intersection"}, Observation \in {"union", "intersection"},
       merge_f \in MergeFs :
        MergeOp(Sample, Observation, merge_f)

SpecMerge == MergeInit /\ [][MergeNext]_vars

\* ------------------------------------------- the table operations under test
OpsSampleIdPool == {"S1", "S2", "S10"}

\* The permutations of a list without repetition.
Perms(ids) == {q \in InjSeqs(Range(ids), Len(ids)) : Len(q) = Len(ids)}

\* Tables without metadata over every matrix of counts.
CountTables ==
    UNION {{TableFromArray(matrix_type, "OTU table", m, sids, oids, None, None).table :
               m \in Matrices(Len(oids), Len(sids)), matrix_type \in MatrixTypes} :
           oids \in InjSeqs(ObsIdPool, 2), sids \in InjSeqs(OpsSampleIdPool, 2)}

\* Tables whose cells all differ, with every metadata argument.
CodedTables ==
    UNION {{TableFromArray(matrix_type, "OTU table", Coded(Len(oids), Len(sids), 0, 1),
                           sids, oids, smd, omd).table :
               smd \in MdArgs(Len(sids), 1), omd \in MdArgs(Len(oids), 1),
               matrix_type \in MatrixTypes} :
           oids \in InjSeqs(ObsIdPool, 2), sids \in InjSeqs(OpsSampleIdPool, 2)}

\* The 2x2 table with values [[1, 0], [0, 2]], in either backing.
DiagonalTables ==
    {TableFromArray(matrix_type, "OTU table",
                    NdArray(2, 2, [k \in Cells(2, 2) |->
                                      IF k[1] = k[2] THEN k[1] + 1 ELSE 0]),
                    <<"S1", "S2">>, <<"O1", "O2">>, None, None).table :
        matrix_type \in MatrixTypes}

OpsInit ==
    /\ IdleStore
    /\ u = NoTable
    /\ res = NoResult
    /\ t \in CountTables \cup CodedTables \cup DiagonalTables

\* The predicates of the filters here: one reads the values, one looks a
\* key up in the metadata.
OpsPreds == {"sum_positive", "k_is_1"}

\* t.sortSampleOrder(order)
SortSampleOrderOp(order) ==
    LET Returns(r) ==
            res' = [op |-> "sortSampleOrder", err |-> r.err, table |-> r.table,
                    order |-> order, before |-> t]
    IN  /\ res = NoResult
        /\ Returns(SortSampleOrder(t, order))
        /\ UNCHANGED <<sd, written, lastOp, t, u>>

\* t.sortObservationOrder(order)
SortObservationOrderOp(order) ==
    LET Returns(r) ==
            res' = [op |-> "sortObservationOrder", err |-> r.err, table |-> r.table,
                    order |-> order, before |-> t]
    IN  /\ res = NoResult
        /\ Returns(SortObservationOrder(t, order))
        /\ UNCHANGED <<sd, written, lastOp, t, u>>

\* An identifier no table under test holds.
UnknownId == "X"

\* The orders over the ids of an axis that name an identifier the axis does
\* not hold: in place of one of the ids, or after all of them.
UnknownOrders(ids) ==
    {[j \in DOMAIN order |-> IF j = i THEN UnknownId ELSE order[j]] :
        order \in Perms(ids), i \in DOMAIN ids}
    \cup {Append(order, UnknownId) : order \in Perms(ids)}

\* t.sortSampleOrder(order) with an order naming an unknown id
SortSampleOrderUnknownOp(order) ==
    LET Returns(r) ==
            res' = [op |-> "sortSampleOrder.unknown", err |-> r.err, table |-> r.table,
                    order |-> order, before |-> t]
    IN  /\ res = NoResult
        /\ Returns(SortSampleOrder(t, order))
        /\ UNCHANGED <<sd, written, lastOp, t, u>>

\* t.sortObservationOrder(order) with an order naming an unknown id
SortObservationOrderUnknownOp(order) ==
    LET Returns(r) ==
            res' = [op |-> "sortObservationOrder.unknown", err |-> r.err,
                    table |-> r.table, order |-> order, before |-> t]
    IN  /\ res = NoResult
        /\ Returns(SortObservationOrder(t, order))
        /\ UNCHANGED <<sd, written, lastOp, t, u>>

\* t.sortBySampleId()
SortBySampleIdOp ==
    LET Returns(r) ==
            res' = [op |-> "sortBySampleId", err |-> r.err, table |-> r.table,
                    before |-> t]
    IN  /\ res = NoResult
        /\ Returns(SortBySampleId(t))
        /\ UNCHANGED <<sd, written, lastOp, t, u>>

\* .sortBySampleId() on the table t.sortBySampleId() returned
SortBySampleIdAgainOp ==
    LET Returns(r) ==
            res' = [op |-> "sortBySampleId.sortBySampleId", err |-> r.err,
                    table |-> r.table, once |-> res.table]
    IN  /\ res.op = "sortBySampleId"
        /\ res.err = ""
        /\ Returns(SortBySampleId(res.table))
        /\ UNCHANGED <<sd, written, lastOp, t, u>>

\* t.transformSamples(f)
TransformSamplesOp(f) ==
    LET Returns(r) ==
            /\ t' = r.self
            /\ res' = [op |-> "transformSamples", err |-> r.err, table |-> r.table,
                       f |-> f, before |-> t]
    IN  /\ res = NoResult
        /\ Returns(TransformSamples(t, f))
        /\ UNCHANGED <<sd, written, lastOp, u>>

\* t.transformObservations(f)
TransformObservationsOp(f) ==
    LET Returns(r) ==
            /\ t' = r.self
            /\ res' = [op |-> "transformObservations", err |-> r.err, table |-> r.table,
                       f |-> f, before |-> t]
    IN  /\ res = NoResult
        /\ Returns(TransformObservations(t, f))
        /\ UNCHANGED <<sd, written, lastOp, u>>

\* t.normObservationByMetadata(key)
NormObservationByMetadataOp(key) ==
    LET Returns(r) ==
            /\ t' = r.self
            /\ res' = [op |-> "normObservationByMetadata", err |-> r.err,
                       table |-> r.table, key |-> key, before |-> t]
    IN  /\ res = NoResult
        /\ Returns(NormObservationByMetadata(t, key))
        /\ UNCHANGED <<sd, written, lastOp, u>>

\* list(t.binSamplesByMetadata(f))
BinSamplesByMetadataOp(f) ==
    LET Returns(r) ==
            /\ t' = r.self
            /\ res' = [op |-> "binSamplesByMetadata", err |-> r.err, table |-> NoTable,
                       bins |-> r.bins, f |-> f, before |-> t]
    IN  /\ res = NoResult
        /\ Returns(BinSamplesByMetadata(t, f))
        /\ UNCHANGED <<sd, written, lastOp, u>>

\* list(t.binObservationsByMetadata(f))
BinObservationsByMetadataOp(f) ==
    LET Returns(r) ==
            /\ t' = r.self
            /\ res' = [op |-> "binObservationsByMetadata", err |-> r.err,
                       table |-> NoTable, bins |-> r.bins, f |-> f, before |-> t]
    IN  /\ res = NoResult
        /\ Returns(BinObservationsByMetadata(t, f))
        /\ UNCHANGED <<sd, written, lastOp, u>>

\* The other operand of the merges here, in the given backing: one known and
\* one new sample, the second observation.
OpsOther(matrix_type) ==
    TableFromArray(matrix_type, "OTU table", Coded(1, 2, 1, 5), <<"S2", "S3">>, <<"O2">>,
                   MdList(<<None, MdDict([k |-> 2])>>), None).table

\* t.merge(other, Sample, Observation, merge_f) with other the operand in the
\* given backing; other is held in u.
MergeWithOp(matrix_type, Sample, Observation, merge_f) ==
    LET other == OpsOther(matrix_type)
        Returns(r) ==
            res' = [op |-> "merge", err |-> r.err, table |-> r.table,
                    Sample |-> Sample, Observation |-> Observation, merge_f |-> merge_f,
                    before |-> t, other |-> other]
    IN  /\ res = NoResult
        /\ u = NoTable
        /\ u' = other
        /\ Returns(Merge(t, other, Sample, Observation, merge_f))
        /\ UNCHANGED <<sd, written, lastOp, t>>

\* u = t.copy()
CopyOp ==
    LET Returns(r) ==
            /\ res' = [op |-> "copy", err |-> r.err, table |-> r.table]
            /\ u' = r.table
    IN  /\ res = NoResult
        /\ Returns(Copy(t))
        /\ UNCHANGED <<sd, written, lastOp, t>>

\* u.setValueByIds(obs_id, samp_id, val) on the copy u; the copy holds no
\* object of t (the matrix is copied, the id lists are sliced, the constructor
\* builds new metadata lists and entries), so t is left alone.
CopySetValueByIdsOp(obs_id, samp_id, val) ==
    LET Returns(r) ==
            /\ u' = r.table
            /\ res' = [op |-> "copy.setValueByIds", err |-> r.err, table |-> r.table,
                       original |-> t, copy |-> u]
    IN  /\ res.op = "copy"
        /\ res.err = ""
        /\ Returns(SetValueByIds(u, obs_id, samp_id, val))
        /\ UNCHANGED <<sd, written, lastOp, t>>

\* u.addSampleMetadata(md) on the copy u
CopyAddSampleMetadataOp(md, order) ==
    LET Returns(r) ==
            /\ u' = r.table
            /\ res' = [op |-> "copy.addSampleMetadata", err |-> r.err, table |-> r.table,
                       original |-> t, copy |-> u]
    IN  /\ res.op = "copy"
        /\ res.err = ""
        /\ Returns(AddSampleMetadata(u, md, order))
        /\ UNCHANGED <<sd, written, lastOp, t>>

\* t.sampleData(id) for a sample id of t
SampleDataOp(id) ==
    /\ res = NoResult
    /\ res' = [op |-> "sampleData", err |-> "", table |-> NoTable, id |-> id,
               vec |-> SampleData(t, id)]
    /\ UNCHANGED <<sd, written, lastOp, t, u>>

\* t.observationData(id) for an observation id of t
ObservationDataOp(id) ==
    /\ res = NoResult
    /\ res' = [op |-> "observationData", err |-> "", table |-> NoTable, id |-> id,
               vec |-> ObservationData(t, id)]
    /\ UNCHANGED <<sd, written, lastOp, t, u>>

\* t.getValueByIds(obs_id, samp_id)
GetValueByIdsOp(obs_id, samp_id) ==
    LET Returns(r) ==
            res' = [op |-> "getValueByIds", err |-> r.err, table |-> NoTable,
                    obs_id |-> obs_id, samp_id |-> samp_id, val |-> r.val]
    IN  /\ res = NoResult
        /\ Returns(GetValueByIds(t, obs_id, samp_id))
        /\ UNCHANGED <<sd, written, lastOp, t, u>>

\* t.setValueByIds(obs_id, samp_id, val)
SetValueByIdsOp(obs_id, samp_id, val) ==
    LET Returns(r) ==
            /\ t' = r.table
            /\ res' = [op |-> "setValueByIds", err |-> r.err, table |-> NoTable,
                       obs_id |-> obs_id, samp_id |-> samp_id, value |-> val,
                       before |-> t]
    IN  /\ res = NoResult
        /\ Returns(SetValueByIds(t, obs_id, samp_id, val))
        /\ UNCHANGED <<sd, written, lastOp, u>>

\* t.getValueByIds(obs_id, samp_id) with the ids of the setValueByIds before
GetValueAfterSetOp ==
    LET Returns(r) ==
            res' = [op |-> "setValueByIds.getValueByIds", err |-> r.err,
                    table |-> NoTable, obs_id |-> res.obs_id, samp_id |-> res.samp_id,
                    value |-> res.value, val |-> r.val, set_err |-> res.err]
    IN  /\ res.op = "setValueByIds"
        /\ Returns(GetValueByIds(t, res.obs_id, res.samp_id))
        /\ UNCHANGED <<sd, written, lastOp, t, u>>

\* list(t.nonzero())
NonzeroOp ==
    /\ res = NoResult
    /\ res' = [op |-> "nonzero", err |-> "", table |-> NoTable, pairs |-> Nonzero(t)]
    /\ UNCHANGED <<sd, written, lastOp, t, u>>

OpsNext ==
    \/ \E order \in Perms(t.SampleIds) : SortSampleOrderOp(order)
    \/ \E order \in Perms(t.ObservationIds) : SortObservationOrderOp(order)
    \/ \E order \in UnknownOrders(t.SampleIds) : SortSampleOrderUnknownOp(order)
    \/ \E order \in UnknownOrders(t.ObservationIds) : SortObservationOrderUnknownOp(order)
    \/ SortBySampleIdOp
    \/ SortBySampleIdAgainOp
    \/ \E f \in OpsPreds, invert \in BOOLEAN : FilterSamplesOp(f, invert)
    \/ \E f \in OpsPreds, invert \in BOOLEAN : FilterObservationsOp(f, invert)
    \/ \E f \in TransformFs : TransformSamplesOp(f)
    \/ \E f \in TransformFs : TransformObservationsOp(f)
    \/ \E key \in {"k"} : NormObservationByMetadataOp(key)
    \/ \E f \in BinFs : BinSamplesByMetadataOp(f)
    \/ \E f \in BinFs : BinObservationsByMetadataOp(f)
    \/ \E matrix_type \in MatrixTypes, Sample \in {"union", "intersection"},
          Observation \in {"union", "intersection"}, merge_f \in MergeFs :
          MergeWithOp(matrix_type, Sample, Observation, merge_f)
    \/ CopyOp
    \/ \E obs_id \in Range(t.ObservationIds), samp_id \in Range(t.SampleIds),
          val \in 0..MaxCount :
          CopySetValueByIdsOp(obs_id, samp_id, val)
    \/ \E md \in [Range(t.SampleIds) -> {[j |-> 1]}], order \in Perms(t.SampleIds) :
          CopyAddSampleMetadataOp(md, order)
    \/ \E obs_id \in Range(t.ObservationIds) \cup {UnknownId},
          samp_id \in Range(t.SampleIds) \cup {UnknownId} :
          GetValueByIdsOp(obs_id, samp_id)
    \/ \E obs_id \in Range(t.ObservationIds) \cup {UnknownId},
          samp_id \in Range(t.SampleIds) \cup {UnknownId}, val \in 0..MaxCount :
          SetValueByIdsOp(obs_id, samp_id, val)
    \/ GetValueAfterSetOp
    \/ NonzeroOp

SpecOps == OpsInit /\ [][OpsNext]_vars

\* An id list of an axis that may hold no id at all.
AxisIds(pool) == {<<>>} \cup InjSeqs(pool, Cardinality(pool))

\* Tables without metadata over every matrix of counts, an axis without ids
\* included: table_factory builds them from an array of shape (0, n) or (n, 0).
VectorTables ==
    UNION {{TableFromArray(matrix_type, "OTU table", m, sids, oids, None, None).table :
               m \in Matrices(Len(oids), Len(sids)), matrix_type \in MatrixTypes} :
           oids \in AxisIds(ObsIdPool), sids \in AxisIds(SampleIdPool)}

VectorsInit ==
    /\ IdleStore
    /\ u = NoTable
    /\ res = NoResult
    /\ t \in VectorTables

VectorsNext ==
    \/ \E id \in Range(t.SampleIds) : SampleDataOp(id)
    \/ \E id \in Range(t.ObservationIds) : ObservationDataOp(id)

SpecVectors == VectorsInit /\ [][VectorsNext]_vars

\* Tables of one observation and two samples with every metadata argument.
MetadataTables ==
    {TableFromArray(matrix_type, "OTU table", Coded(1, 2, 0, 1), <<"S1", "S2">>, <<"O1">>,
                    smd, omd).table :
        smd \in MdArgs(2, 1), omd \in MdArgs(1, 1), matrix_type \in MatrixTypes}

\* The arguments of the additions: {id: {"j": 1}} over some ids of the axis.
MdAdditions(ids) == UNION {[S -> {[j |-> 1]}] : S \in (SUBSET Range(ids)) \ {{}}}

\* The keys looked up: "k" may come from construction, "j" from an addition.
LookupKeys == {"k", "j"}

MetadataInit ==
    /\ IdleStore
    /\ u = NoTable
    /\ res = NoResult
    /\ t \in MetadataTables

\* t.addSampleMetadata(md), in place; order is the order of md.items().
AddSampleMetadataOp(md, order) ==
    LET Returns(r) ==
            /\ t' = r.table
            /\ res' = [op |-> "addSampleMetadata", err |-> r.err, table |-> NoTable]
    IN  /\ Returns(AddSampleMetadata(t, md, order))
        /\ UNCHANGED <<sd, written, lastOp, u>>

\* t.addObservationMetadata(md), in place.
AddObservationMetadataOp(md, order) ==
    LET Returns(r) ==
            /\ t' = r.table
            /\ res' = [op |-> "addObservationMetadata", err |-> r.err, table |-> NoTable]
    IN  /\ Returns(AddObservationMetadata(t, md, order))
        /\ UNCHANGED <<sd, written, lastOp, u>>

\* t.SampleMetadata[i - 1][key] on a table with sample metadata.
LookupSampleOp(i, key) ==
    LET Returns(r) ==
            /\ t' = [t EXCEPT !.SampleMetadata.l[i] = r.entry]
            /\ res' = [op |-> "lookupSample", err |-> r.err, table |-> NoTable,
                       val |-> r.val, missing |-> key \notin DOMAIN t.SampleMetadata.l[i].d]
    IN  /\ t.SampleMetadata # None
        /\ Returns(Lookup(t.SampleMetadata.l[i], key))
        /\ UNCHANGED <<sd, written, lastOp, u>>

\* t.ObservationMetadata[i - 1][key] on a table with observation metadata.
LookupObservationOp(i, key) ==
    LET Returns(r) ==
            /\ t' = [t EXCEPT !.ObservationMetadata.l[i] = r.entry]
            /\ res' = [op |-> "lookupObservation", err |-> r.err, table |-> NoTable,
                       val |-> r.val,
                       missing |-> key \notin DOMAIN t.ObservationMetadata.l[i].d]
    IN  /\ t.ObservationMetadata # None
        /\ Returns(Lookup(t.ObservationMetadata.l[i], key))
        /\ UNCHANGED <<sd, written, lastOp, u>>

MetadataNext ==
    \/ \E md \in MdAdditions(t.SampleIds) :
          \E order \in Perms(SetToSeq(DOMAIN md)) : AddSampleMetadataOp(md, order)
    \/ \E md \in MdAdditions(t.ObservationIds) :
          \E order \in Perms(SetToSeq(DOMAIN md)) : AddObservationMetadataOp(md, order)
    \/ \E i \in DOMAIN t.SampleIds, key \in LookupKeys : LookupSampleOp(i, key)
    \/ \E i \in DOMAIN t.ObservationIds, key \in LookupKeys : LookupObservationOp(i, key)

SpecMetadata == MetadataInit /\ [][MetadataNext]_vars

\* ------------------------------------------------- the record under test
\* The 1x2 table with the single nonzero value 3 at (0, 1), in either
\* backing, with and without a table kind.
SingleCellTables ==
    {TableFromArray(matrix_type, biom_type,
                    NdArray(1, 2, [k \in Cells(1, 2) |-> IF k = <<0, 1>> THEN 3 ELSE 0]),
                    <<"S1", "S2">>, <<"O1">>, None, None).table :
        matrix_type \in MatrixTypes, biom_type \in {"OTU table", "None"}}

RecordInit ==
    /\ IdleStore
    /\ u = NoTable
    /\ res = NoResult
    /\ t \in VectorTables \cup MdTables(1, 1) \cup SingleCellTables

\* t.getBiomFormatObject(generated_by), generated_by a string or None.
GetBiomFormatObjectOp(kind) ==
    LET generated_by == IF kind = "str" THEN Str("x") ELSE None
        Returns(r) ==
            res' = [op |-> "getBiomFormatObject", err |-> r.err, table |-> NoTable,
                    record |-> r.record, generated_by |-> generated_by]
    IN  /\ res = NoResult
        /\ Returns(GetBiomFormatObject(t, generated_by))
        /\ UNCHANGED <<sd, written, lastOp, t, u>>

\* t.getBiomFormatPrettyPrint()
GetBiomFormatPrettyPrintOp ==
    LET Returns(r) ==
            res' = [op |-> "getBiomFormatPrettyPrint", err |-> r.err, table |-> NoTable,
                    json |-> r.json]
    IN  /\ res = NoResult
        /\ Returns(GetBiomFormatPrettyPrint(t))
        /\ UNCHANGED <<sd, written, lastOp, t, u>>

RecordNext ==
    \/ \E kind \in {"str", "none"} : GetBiomFormatObjectOp(kind)
    \/ GetBiomFormatPrettyPrintOp

SpecRecord == RecordInit /\ [][RecordNext]_vars

\* -------------------------------------------- the bulk update under test
\* The shapes of the stores under test.
BulkShapes == {<<0, 0>>, <<0, 1>>, <<1, 0>>, <<1, 1>>, <<2, 1>>, <<1, 2>>, <<2, 2>>}

\* The stores a sequence of sets leaves: at every coordinate nothing, or a
\* value no update here writes, so that an overwrite shows.
SetStores ==
    UNION {{NpArrayToSparseDict(NdArray(shape[1], shape[2], a)) :
               a \in [Cells(shape[1], shape[2]) -> {0, MaxVal + 1}]} :
           shape \in BulkShapes}

\* The coordinates of an update of a store: every coordinate of its shape,
\* and one beyond each edge a bounds test of update guards.
UpdateCoords(self) ==
    Cells(self.shape[1], self.shape[2])
        \cup {<<self.shape[1], 0>>, <<0 - 1, 0>>, <<0, self.shape[2]>>, <<0, 0 - 1>>}

\* The dicts handed to update, each in every order items() may give: up to
\* MaxEntries coordinates with a value each.
UpdateDicts(self) ==
    UNION {{[n \in DOMAIN q |-> <<q[n], v[n]>>] : v \in [DOMAIN q -> 0..MaxVal]} :
           q \in {<<>>} \cup InjSeqs(UpdateCoords(self), MaxEntries)}

BulkInit ==
    /\ sd \in SetStores
    /\ written = [k \in Cells(sd.shape[1], sd.shape[2]) |-> GetItem(sd, k).val]
    /\ lastOp = NoOp
    /\ t = NoTable
    /\ u = NoTable
    /\ res = NoResult

\* sd.update(update_dict), the items taken in the order `entries`.
UpdateOp(entries) ==
    LET r == Update(sd, entries)
    IN  /\ lastOp.op = "init"
        /\ sd' = r.sd
        /\ lastOp' = [op |-> "update", entries |-> entries, err |-> r.err, before |-> sd]
        /\ UNCHANGED <<written, t, u, res>>

\* One update per store; the dicts are enumerated only while it is due.
BulkNext ==
    /\ lastOp.op = "init"
    /\ \E entries \in UpdateDicts(sd) : UpdateOp(entries)

SpecBulk == BulkInit /\ [][BulkNext]_vars

\* ------------------------------------------- rows, columns and transposes
RowsInit ==
    /\ sd \in SetStores
    /\ written = EmptyDict
    /\ lastOp = NoOp
    /\ t = NoTable
    /\ u = NoTable
    /\ res = NoResult

\* sd.update(update_dict) ahead of the call under test, raising or not;
\* only its outcome is kept.
UpdateFirstOp(entries) ==
    LET r == Update(sd, entries)
    IN  /\ lastOp.op = "init"
        /\ sd' = r.sd
        /\ lastOp' = [op |-> "update", arg |-> 0, err |-> r.err, out |-> r.sd,
                      receiver |-> sd]
        /\ UNCHANGED <<written, t, u, res>>

\* sd.getRow(row)
GetRowOp(row) ==
    LET r == GetRow(sd, row)
    IN  /\ lastOp.op \in {"init", "update"}
        /\ lastOp' = [op |-> "getRow", arg |-> row, err |-> r.err, out |-> r.sd,
                      receiver |-> sd]
        /\ UNCHANGED <<sd, written, t, u, res>>

\* sd.getCol(col)
GetColOp(col) ==
    LET r == GetCol(sd, col)
    IN  /\ lastOp.op \in {"init", "update"}
        /\ lastOp' = [op |-> "getCol", arg |-> col, err |-> r.err, out |-> r.sd,
                      receiver |-> sd]
        /\ UNCHANGED <<sd, written, t, u, res>>

\* out[row, col] = value on the store a getRow or getCol returned: a new
\* SparseDict with index sets of its own, which the receiver does not hold.
SetResultOp(row, col, value) ==
    LET r == SetItem(lastOp.out, <<row, col>>, value)
    IN  /\ lastOp.op \in {"getRow", "getCol"}
        /\ lastOp.err = ""
        /\ lastOp' = [op |-> "setResult", arg |-> <<row, col>>, err |-> r.err,
                      out |-> r.sd, receiver |-> lastOp.receiver]
        /\ UNCHANGED <<sd, written, t, u, res>>

\* sd.transpose()
TransposeOp ==
    /\ lastOp.op \in {"init", "update"}
    /\ lastOp' = [op |-> "transpose", arg |-> 0, err |-> "", out |-> Transpose(sd),
                  receiver |-> sd]
    /\ UNCHANGED <<sd, written, t, u, res>>

\* sd.transpose().transpose()
TransposeAgainOp ==
    /\ lastOp.op = "transpose"
    /\ lastOp' = [op |-> "transpose.transpose", arg |-> 0, err |-> "",
                  out |-> Transpose(lastOp.out), receiver |-> lastOp.receiver]
    /\ UNCHANGED <<sd, written, t, u, res>>

RowsNext ==
    \/ /\ lastOp.op = "init"
       /\ \E entries \in UpdateDicts(sd) : UpdateFirstOp(entries)
    \/ \E row \in (0 - 1)..sd.shape[1] : GetRowOp(row)
    \/ \E col \in (0 - 1)..sd.shape[2] : GetColOp(col)
    \/ \E row \in 0..1, col \in 0..1, value \in 0..MaxVal : SetResultOp(row, col, value)
    \/ TransposeOp
    \/ TransposeAgainOp

SpecRows == RowsInit /\ [][RowsNext]_vars

\* ---------------------------------------------------------------- claims

\* C1: after any sequence of set calls every coordinate held in an index set
\* has a nonzero stored value, and every stored coordinate is in exactly the
\* index set of its own row and of its own column.
C1_IndexConsistent ==
    /\ \A r \in DOMAIN sd.index_rows : \A a \in sd.index_rows[r] :
          a \in DOMAIN sd.items /\ sd.items[a] # 0 /\ a[1] = r
    /\ \A c \in DOMAIN sd.index_cols : \A a \in sd.index_cols[c] :
          a \in DOMAIN sd.items /\ sd.items[a] # 0 /\ a[2] = c
    /\ \A a \in DOMAIN sd.items :
          /\ \A r \in DOMAIN sd.index_rows : a \in sd.index_rows[r] <=> r = a[1]
          /\ \A c \in DOMAIN sd.index_cols : a \in sd.index_cols[c] <=> c = a[2]

\* An entry was stored and then removed again by a zero set.
C1_Witness ==
    /\ lastOp.op = "set" /\ lastOp.err = "" /\ lastOp.value = 0
    /\ lastOp.had
    /\ DOMAIN sd.items # {}
    /\ lastOp.args \notin DOMAIN sd.items

\* Every coordinate inside the shape reads back its last written value, or
\* zero when it was never written, and the backing map holds no zero.
C2_GetReturnsLastSet ==
    /\ \A r \in 0..(sd.shape[1] - 1), c \in 0..(sd.shape[2] - 1) :
          LET g == GetItem(sd, <<r, c>>)
          IN  /\ g.err = ""
              /\ g.val = written[<<r, c>>]
    /\ \A a \in DOMAIN sd.items : sd.items[a] # 0
    /\ (lastOp.op = "get" /\ lastOp.err = "") =>
          lastOp.val = written[lastOp.args]

\* A nonzero value is read back from a store that holds no other entry.
C2_Witness ==
    /\ lastOp.op = "get" /\ lastOp.err = "" /\ lastOp.val = MaxVal
    /\ DOMAIN sd.items = {lastOp.args}
    /\ \E a \in DOMAIN written : a # lastOp.args

\* A step that sets zero on an absent coordinate leaves the store as it was.
C2_ZeroSetOnAbsentIsNoOp ==
    (lastOp'.op = "set" /\ lastOp'.value = 0 /\ lastOp'.args \notin DOMAIN sd.items)
        => sd' = sd

\* C2: get returns the value of the most recent set when it is nonzero and
\* zero when the coordinate was never set or last set to zero; the backing
\* map never holds a zero; a zero set on an absent coordinate changes nothing.
C2_Get == []C2_GetReturnsLastSet /\ [][C2_ZeroSetOnAbsentIsNoOp]_vars

\* Every stored coordinate and every index key is inside the shape, and the
\* last call outside the shape ended in an out-of-bounds error.
C3_StoredInsideShape ==
    /\ \A a \in DOMAIN sd.items : InShape(sd, a)
    /\ DOMAIN sd.index_rows = 0..(sd.shape[1] - 1)
    /\ DOMAIN sd.index_cols = 0..(sd.shape[2] - 1)
    /\ (lastOp.op \in {"set", "get"} /\ ~InShape(sd, lastOp.args))
          => OutOfBounds(lastOp.err)

\* No step changes the shape, and a step that calls set or get outside the
\* shape fails and leaves the store as it was.
C3_OutOfBoundsStep ==
    /\ sd'.shape = sd.shape
    /\ (lastOp'.op \in {"set", "get"} /\ ~InShape(sd, lastOp'.args))
          => (OutOfBounds(lastOp'.err) /\ sd' = sd)

\* C3: set and get outside the shape fail with OutOfBounds and leave the
\* shape, the backing map and both index sets unchanged; the shape never
\* changes and every stored coordinate is inside the shape.
C3_OutOfBounds == []C3_StoredInsideShape /\ [][C3_OutOfBoundsStep]_vars

\* A set outside the shape of a store that holds an entry has failed.
C3_Witness ==
    /\ lastOp.op = "set" /\ lastOp.value # 0
    /\ ~InShape(sd, lastOp.args)
    /\ OutOfBounds(lastOp.err)
    /\ DOMAIN sd.items # {}

\* ------------------------------------------------ helpers of the claims
IsInjective(q) == \A i, j \in DOMAIN q : q[i] = q[j] => i = j

Pos(q, x) == CHOOSE i \in DOMAIN q : q[i] = x

\* The matrix cell (i, j), 0-based, read from the backing directly.
CellValue(tab, i, j) ==
    IF tab.matrix_type = "sparse"
    THEN IF <<i, j>> \in DOMAIN tab.data.items THEN tab.data.items[<<i, j>>] ELSE 0
    ELSE tab.data.a[<<i, j>>]

\* The value at (obs, samp), the ids found in the identifier lists.
ValueByIds(tab, obs, samp) ==
    CellValue(tab, Pos(tab.ObservationIds, obs) - 1, Pos(tab.SampleIds, samp) - 1)

\* An operand's value at (obs, samp): zero when it lacks either identifier.
ValueOrZero(tab, obs, samp) ==
    IF obs \in Range(tab.ObservationIds) /\ samp \in Range(tab.SampleIds)
    THEN ValueByIds(tab, obs, samp) ELSE 0

\* The error kinds of the specification for the constructor's errors.
ErrorKind(e) ==
    CASE e \in {ErrObsCount, ErrSampCount} -> "ShapeMismatch"
      [] e \in {ErrObsDuplicate, ErrSampDuplicate} -> "DuplicateIdentifier"
      [] e \in {ErrSampMdShape, ErrObsMdShape} -> "MetadataShapeMismatch"
      [] e = ErrCast -> "ConstructionError"
      [] OTHER -> "none"

MdEntriesOk(md) == md = None \/ \A i \in DOMAIN md.l : md.l[i] = None \/ md.l[i].tag = "dict"

MdLengthOk(md, ids) == md = None \/ Len(md.l) = Len(ids)

\* The error kinds whose condition the constructor arguments violate.
ViolatedKinds(a) ==
    (IF a.rows # Len(a.oids) \/ a.cols # Len(a.sids) THEN {"ShapeMismatch"} ELSE {})
    \cup (IF ~IsInjective(a.oids) \/ ~IsInjective(a.sids)
          THEN {"DuplicateIdentifier"} ELSE {})
    \cup (IF ~MdLengthOk(a.smd, a.sids) \/ ~MdLengthOk(a.omd, a.oids)
          THEN {"MetadataShapeMismatch"} ELSE {})
    \cup (IF ~MdEntriesOk(a.smd) \/ ~MdEntriesOk(a.omd) THEN {"ConstructionError"} ELSE {})

\* C4: construction succeeds exactly when the matrix shape matches the
\* identifier counts, no identifier list has a duplicate, each supplied
\* metadata sequence has the length of its axis and every metadata entry is a
\* mapping or absent; a constructed table has rows == |observationIds| and
\* cols == |sampleIds|; a failure carries the error kind of a violated
\* condition (the kind of the only one when a single condition is violated).
C4_Construction ==
    res.op = "construct" =>
        /\ res.err = "" <=> ViolatedKinds(res.args) = {}
        /\ res.err = "" =>
              /\ res.table.data.shape[1] = Len(res.table.ObservationIds)
              /\ res.table.data.shape[2] = Len(res.table.SampleIds)
              /\ res.table.ObservationIds = res.args.oids
              /\ res.table.SampleIds = res.args.sids
        /\ res.err # "" =>
              /\ res.table = NoTable
              /\ ErrorKind(res.err) \in ViolatedKinds(res.args)

\* A table with two samples, one observation and observation metadata was
\* constructed.
C4_Witness ==
    /\ res.op = "construct" /\ res.err = ""
    /\ Len(res.args.sids) = 2
    /\ res.args.omd # None
    /\ res.table.ObservationMetadata # None

\* C5: the table rebuilt from toRecord(t, "x") equals t, for sparse and dense
\* tables, also when the last observation or sample has only zero values.
C5_RoundTrip ==
    res.op = "roundTrip" => (res.err = "" /\ TableEq(res.table, t))

\* The identifier order the specification gives a merged axis.
ExpectedOrder(mode, a, b) ==
    LET New(x) == x \notin Range(a)
        Shared(x) == x \in Range(b)
    IN  IF mode = "union" THEN a \o SelectSeq(b, New) ELSE SelectSeq(a, Shared)

\* C6: a merged axis lists, in union mode, self's identifiers in order and
\* then other's new identifiers in other's order, none repeated; in
\* intersection mode, self's identifiers that other has, in self's order;
\* each axis by its own mode.
C6_MergeOrder ==
    (res.op = "merge" /\ res.err = "") =>
        /\ res.table.SampleIds = ExpectedOrder(res.Sample, t.SampleIds, u.SampleIds)
        /\ res.table.ObservationIds =
              ExpectedOrder(res.Observation, t.ObservationIds, u.ObservationIds)
        /\ IsInjective(res.table.SampleIds)
        /\ IsInjective(res.table.ObservationIds)

\* A union of the samples took two new identifiers from other while the
\* observations were intersected.
C6_Witness ==
    /\ res.op = "merge" /\ res.err = ""
    /\ res.Sample = "union" /\ res.Observation = "intersection"
    /\ Len(t.SampleIds) = 1 /\ Len(res.table.SampleIds) = 3
    /\ Len(res.table.ObservationIds) < Len(t.ObservationIds)

\* C7: every merged value is combine(self's value or zero, other's value or
\* zero); with addition, union mode and disjoint sample sets it is the value
\* of the side that defines the pair.
C7_MergeValues ==
    (res.op = "merge" /\ res.err = "") =>
        \A obs \in Range(res.table.ObservationIds), samp \in Range(res.table.SampleIds) :
            /\ ValueByIds(res.table, obs, samp) =
                  MergeF(res.merge_f, ValueOrZero(t, obs, samp), ValueOrZero(u, obs, samp))
            /\ (/\ res.merge_f = "add" /\ res.Sample = "union"
                /\ Range(t.SampleIds) \cap Range(u.SampleIds) = {}) =>
                  /\ (obs \in Range(t.ObservationIds) /\ samp \in Range(t.SampleIds)) =>
                        ValueByIds(res.table, obs, samp) = ValueByIds(t, obs, samp)
                  /\ (obs \in Range(u.ObservationIds) /\ samp \in Range(u.SampleIds)) =>
                        ValueByIds(res.table, obs, samp) = ValueByIds(u, obs, samp)

\* Two tables with disjoint samples and different observations were added up
\* in union mode into a sparse table.
C7_Witness ==
    /\ res.op = "merge" /\ res.err = ""
    /\ res.merge_f = "add" /\ res.Sample = "union" /\ res.Observation = "union"
    /\ Range(t.SampleIds) \cap Range(u.SampleIds) = {}
    /\ Range(t.ObservationIds) # Range(u.ObservationIds)
    /\ res.table.matrix_type = "sparse"
    /\ \E k \in DOMAIN res.table.data.items : res.table.data.items[k] >= 5

\* The identifier set the specification gives a merged axis.
ExpectedSet(mode, a, b) ==
    IF mode = "union" THEN Range(a) \cup Range(b) ELSE Range(a) \cap Range(b)

\* C8: merge fails with EmptyMergeResult, and returns no table, exactly when
\* the merged sample set or the merged observation set is empty.
C8_EmptyMerge ==
    res.op = "merge" =>
        LET empty == \/ ExpectedSet(res.Sample, t.SampleIds, u.SampleIds) = {}
                     \/ ExpectedSet(res.Observation, t.ObservationIds, u.ObservationIds) = {}
        IN  /\ empty <=> res.err \in {ErrNoSamples, ErrNoObs}
            /\ empty => res.table = NoTable
            /\ ~empty => (res.err = "" /\ res.table.tag = "Table")

\* An intersection of observations without overlap failed although the
\* merged sample set was not empty.
C8_Witness ==
    /\ res.op = "merge" /\ res.err = ErrNoObs
    /\ res.Observation = "intersection"
    /\ ExpectedSet(res.Sample, t.SampleIds, u.SampleIds) # {}

\* An entry that holds no metadata: None, or the empty mapping an entry
\* given as absent is cast to (no table under test is given an empty dict).
NullMd(x) == x = None \/ x = DefaultDict(EmptyDict)

SameMd(x, y) == (NullMd(x) /\ NullMd(y)) \/ x = y

\* The metadata the specification's default policy gives an identifier.
ExpectedMd(id, self_ids, self_md, other_ids, other_md) ==
    LET self_entry == IF id \in Range(self_ids) THEN MdAt(self_md, Pos(self_ids, id))
                      ELSE None
        other_entry == IF id \in Range(other_ids) THEN MdAt(other_md, Pos(other_ids, id))
                       ELSE None
    IN  IF ~NullMd(self_entry) THEN self_entry
        ELSE IF ~NullMd(other_entry) THEN other_entry
        ELSE None

\* C9: with the default policy the merged metadata of an identifier is
\* self's when self has it, else other's, else null; an entry self was given
\* as absent counts as self not having it.
C9_PreferSelfMetadata ==
    (res.op = "merge" /\ res.err = "") =>
        /\ \A n \in DOMAIN res.table.SampleIds :
              SameMd(MdAt(res.table.SampleMetadata, n),
                     ExpectedMd(res.table.SampleIds[n], t.SampleIds, t.SampleMetadata,
                                u.SampleIds, u.SampleMetadata))
        /\ \A n \in DOMAIN res.table.ObservationIds :
              SameMd(MdAt(res.table.ObservationMetadata, n),
                     ExpectedMd(res.table.ObservationIds[n], t.ObservationIds,
                                t.ObservationMetadata, u.ObservationIds,
                                u.ObservationMetadata))

\* The positions a filter is specified to keep: those whose vector, read
\* cell by cell, id and metadata satisfy f XOR invert.
KeptSamples(tab, f, invert) ==
    LET Keep(j) == Pred(f, [i \in 1..Len(tab.ObservationIds) |-> CellValue(tab, i - 1, j - 1)],
                        tab.SampleIds[j], MdAt(tab.SampleMetadata, j)) # invert
    IN  SelectSeq([j \in 1..Len(tab.SampleIds) |-> j], Keep)

KeptObservations(tab, f, invert) ==
    LET Keep(i) == Pred(f, [j \in 1..Len(tab.SampleIds) |-> CellValue(tab, i - 1, j - 1)],
                        tab.ObservationIds[i], MdAt(tab.ObservationMetadata, i)) # invert
    IN  SelectSeq([i \in 1..Len(tab.ObservationIds) |-> i], Keep)

\* C10: filterSamples returns the samples with predicate XOR invert, in the
\* receiver's order, with their metadata and their value for every
\* observation, the observation axis unchanged; filterObservations likewise
\* on the observation axis; for sparse and dense tables.
C10_Filter ==
    /\ res.op = "filterSamples" =>
          LET kept == KeptSamples(t, res.f, res.invert)
          IN  kept # <<>> =>
                /\ res.err = ""
                /\ res.table.matrix_type = t.matrix_type
                /\ res.table.SampleIds = [n \in DOMAIN kept |-> t.SampleIds[kept[n]]]
                /\ \A n \in DOMAIN kept :
                      MdAt(res.table.SampleMetadata, n) = MdAt(t.SampleMetadata, kept[n])
                /\ res.table.ObservationIds = t.ObservationIds
                /\ res.table.ObservationMetadata = t.ObservationMetadata
                /\ res.table.data.shape = <<Len(t.ObservationIds), Len(kept)>>
                /\ \A i \in DOMAIN t.ObservationIds, n \in DOMAIN kept :
                      CellValue(res.table, i - 1, n - 1) = CellValue(t, i - 1, kept[n] - 1)
    /\ res.op = "filterObservations" =>
          LET kept == KeptObservations(t, res.f, res.invert)
          IN  kept # <<>> =>
                /\ res.err = ""
                /\ res.table.matrix_type = t.matrix_type
                /\ res.table.ObservationIds = [n \in DOMAIN kept |-> t.ObservationIds[kept[n]]]
                /\ \A n \in DOMAIN kept :
                      MdAt(res.table.ObservationMetadata, n) =
                          MdAt(t.ObservationMetadata, kept[n])
                /\ res.table.SampleIds = t.SampleIds
                /\ res.table.SampleMetadata = t.SampleMetadata
                /\ res.table.data.shape = <<Len(kept), Len(t.SampleIds)>>
                /\ \A n \in DOMAIN kept, j \in DOMAIN t.SampleIds :
                      CellValue(res.table, n - 1, j - 1) = CellValue(t, kept[n] - 1, j - 1)

\* An inverted filter kept the second of two samples of a sparse table with
\* sample metadata and a nonzero value in that sample.
C10_Witness ==
    /\ res.op = "filterSamples" /\ res.err = "" /\ res.invert
    /\ t.matrix_type = "sparse" /\ t.SampleMetadata # None
    /\ Len(t.SampleIds) = 2 /\ Len(t.ObservationIds) = 2
    /\ res.table.SampleIds = <<t.SampleIds[2]>>
    /\ DOMAIN res.table.data.items # {}

C12_SortOrder ==
    /\ res.op = "sortSampleOrder" =>
          /\ res.err = ""
          /\ res.table.SampleIds = res.order
          /\ res.table.ObservationIds = t.ObservationIds
          /\ res.table.ObservationMetadata = t.ObservationMetadata
          /\ \A j \in DOMAIN res.order :
                MdAt(res.table.SampleMetadata, j) =
                    MdAt(t.SampleMetadata, Pos(t.SampleIds, res.order[j]))
          /\ res.table.data.shape = t.data.shape
          /\ \A i \in DOMAIN t.ObservationIds, j \in DOMAIN t.SampleIds :
                ValueByIds(res.table, t.ObservationIds[i], t.SampleIds[j]) =
                    CellValue(t, i - 1, j - 1)
    /\ res.op = "sortObservationOrder" =>
          /\ res.err = ""
          /\ res.table.ObservationIds = res.order
          /\ res.table.SampleIds = t.SampleIds
          /\ res.table.SampleMetadata = t.SampleMetadata
          /\ \A i \in DOMAIN res.order :
                MdAt(res.table.ObservationMetadata, i) =
                    MdAt(t.ObservationMetadata, Pos(t.ObservationIds, res.order[i]))
          /\ res.table.data.shape = t.data.shape
          /\ \A i \in DOMAIN t.ObservationIds, j \in DOMAIN t.SampleIds :
                ValueByIds(res.table, t.ObservationIds[i], t.SampleIds[j]) =
                    CellValue(t, i - 1, j - 1)

\* C13: sortBySampleId applied to the table sortBySampleId returned gives a
\* table with the same sample order as the one application did.
C13_SortIdempotent ==
    res.op = "sortBySampleId.sortBySampleId" =>
        /\ res.err = ""
        /\ res.table.SampleIds = res.once.SampleIds

\* The receiver [S10, S2] with sample metadata was not in natural order; one
\* application gave [S2, S10] and the second returned a table in turn.
C13_Witness ==
    /\ res.op = "sortBySampleId.sortBySampleId"
    /\ res.err = ""
    /\ t.SampleIds = <<"S10", "S2">>
    /\ res.once.SampleIds = <<"S2", "S10">>
    /\ t.SampleMetadata # None

\* C14: copy() returns a table equal to the receiver, and a setValueByIds or
\* an addSampleMetadata on the copy leaves the receiver's matrix, identifier
\* lists and metadata as they were.
C14_CopyIndependent ==
    /\ res.op = "copy" =>
          /\ res.err = ""
          /\ TableEq(u, t)
          /\ TableEq(t, u)
    /\ res.op \in {"copy.setValueByIds", "copy.addSampleMetadata"} =>
          t = res.original

\* The operations that return new tables and are to leave the receiver alone.
NewTableOps ==
    {"filterSamples", "filterObservations", "transformSamples", "transformObservations",
     "normObservationByMetadata", "sortSampleOrder", "sortObservationOrder",
     "sortBySampleId", "binSamplesByMetadata", "binObservationsByMetadata", "merge"}

\* C15: after a filter, transform, sort, bin or merge, successful or failed,
\* the receiver has the sample ids, observation ids, metadata, identifier
\* indices and matrix it had before the call, and so has merge's other
\* operand.
C15_ReceiverUnchanged ==
    /\ res.op \in NewTableOps => t = res.before
    /\ res.op = "merge" => u = res.other

\* The table of the other backing built from the same values and ids.
Twin(tab) ==
    TableFromArray(IF tab.matrix_type = "sparse" THEN "dense" ELSE "sparse", tab.biom_type,
                   NdArray(Len(tab.ObservationIds), Len(tab.SampleIds),
                           [k \in Cells(Len(tab.ObservationIds), Len(tab.SampleIds)) |->
                               CellValue(tab, k[1], k[2])]),
                   tab.SampleIds, tab.ObservationIds, None, None).table

\* C16: sampleData(id) has one element per observation id, the i-th being
\* getValueByIds(ObservationIds[i], id), and observationData(id) one per
\* sample id, the j-th being getValueByIds(id, SampleIds[j]); the table of
\* the other backing over the same values returns the same vectors and values.
C16_VectorsAgree ==
    /\ res.op = "sampleData" =>
          /\ Len(res.vec) = Len(t.ObservationIds)
          /\ \A i \in DOMAIN t.ObservationIds :
                /\ GetValueByIds(t, t.ObservationIds[i], res.id).err = ""
                /\ res.vec[i] = GetValueByIds(t, t.ObservationIds[i], res.id).val
                /\ res.vec[i] = CellValue(t, i - 1, Pos(t.SampleIds, res.id) - 1)
                /\ GetValueByIds(Twin(t), t.ObservationIds[i], res.id) =
                       GetValueByIds(t, t.ObservationIds[i], res.id)
          /\ SampleData(Twin(t), res.id) = res.vec
    /\ res.op = "observationData" =>
          /\ Len(res.vec) = Len(t.SampleIds)
          /\ \A j \in DOMAIN t.SampleIds :
                /\ GetValueByIds(t, res.id, t.SampleIds[j]).err = ""
                /\ res.vec[j] = GetValueByIds(t, res.id, t.SampleIds[j]).val
                /\ res.vec[j] = CellValue(t, Pos(t.ObservationIds, res.id) - 1, j - 1)
                /\ GetValueByIds(Twin(t), res.id, t.SampleIds[j]) =
                       GetValueByIds(t, res.id, t.SampleIds[j])
          /\ ObservationData(Twin(t), res.id) = res.vec

\* C17: after construction and any additions of metadata, looking up a key
\* that an entry of an axis with metadata does not hold yields None and
\* raises nothing.
C17_MissingKeyIsNull ==
    (res.op \in {"lookupSample", "lookupObservation"} /\ res.missing) =>
        /\ res.err = ""
        /\ res.val = NoneValue

\* The identifier indices of a table map each id to its 0-based position and
\* hold no other key, and getValueByIds reads the cell at those positions.
IndexOk(tab) ==
    /\ DOMAIN tab.sample_index = Range(tab.SampleIds)
    /\ DOMAIN tab.obs_index = Range(tab.ObservationIds)
    /\ \A j \in DOMAIN tab.SampleIds : tab.sample_index[tab.SampleIds[j]] = j - 1
    /\ \A i \in DOMAIN tab.ObservationIds : tab.obs_index[tab.ObservationIds[i]] = i - 1
    /\ \A i \in DOMAIN tab.ObservationIds, j \in DOMAIN tab.SampleIds :
          /\ GetValueByIds(tab, tab.ObservationIds[i], tab.SampleIds[j]).err = ""
          /\ GetValueByIds(tab, tab.ObservationIds[i], tab.SampleIds[j]).val =
                 CellValue(tab, i - 1, j - 1)

\* C18: the constructed table and every table a filter, transform, sort, bin
\* or merge returns has a sample index that maps SampleIds[j] to j and an
\* observation index that maps ObservationIds[i] to i, neither with other
\* keys, so getValueByIds(ObservationIds[i], SampleIds[j]) reads cell (i, j).
C18_IndexMaps ==
    /\ IndexOk(t)
    /\ (res.op \in NewTableOps \cup {"sortBySampleId.sortBySampleId"} /\ res.table # NoTable)
           => IndexOk(res.table)
    /\ (res.op \in {"binSamplesByMetadata", "binObservationsByMetadata"} /\ res.err = "")
           => \A b \in DOMAIN res.bins :
                  res.bins[b].table # NoTable => IndexOk(res.bins[b].table)

\* A sort returned a table whose two samples changed places, so its index is
\* not the receiver's.
C18_Witness ==
    /\ res.op = "sortSampleOrder"
    /\ res.err = ""
    /\ Len(t.SampleIds) = 2
    /\ res.table.SampleIds = <<t.SampleIds[2], t.SampleIds[1]>>
    /\ res.table.sample_index # t.sample_index
    /\ IndexOk(res.table)

\* The messages with which getValueByIds and setValueByIds raise UnknownID.
UnknownIdErrors == {ErrUnknownObsId, ErrUnknownSampleId}

\* C19: getValueByIds and setValueByIds raise UnknownID exactly when the
\* observation id or the sample id is not on its axis; a failing
\* setValueByIds leaves the table as it was; with both ids known,
\* setValueByIds(o, s, v) leaves every other cell, the ids and the metadata
\* as they were, and getValueByIds(o, s) after it returns v.
C19_ValueAt ==
    /\ res.op = "getValueByIds" =>
          /\ res.err # "" <=> (res.obs_id \notin Range(t.ObservationIds)
                                  \/ res.samp_id \notin Range(t.SampleIds))
          /\ res.err # "" => res.err \in UnknownIdErrors
          /\ res.err = "" => res.val = ValueByIds(t, res.obs_id, res.samp_id)
    /\ res.op = "setValueByIds" =>
          /\ res.err # "" <=> (res.obs_id \notin Range(res.before.ObservationIds)
                                  \/ res.samp_id \notin Range(res.before.SampleIds))
          /\ res.err # "" => res.err \in UnknownIdErrors /\ t = res.before
          /\ res.err = "" =>
                /\ [t EXCEPT !.data = res.before.data] = res.before
                /\ t.data.shape = res.before.data.shape
                /\ \A i \in DOMAIN t.ObservationIds, j \in DOMAIN t.SampleIds :
                      CellValue(t, i - 1, j - 1) =
                          IF t.ObservationIds[i] = res.obs_id /\ t.SampleIds[j] = res.samp_id
                          THEN res.value
                          ELSE CellValue(res.before, i - 1, j - 1)
    /\ (res.op = "setValueByIds.getValueByIds" /\ res.set_err = "") =>
          /\ res.err = ""
          /\ res.val = res.value
    /\ (res.op = "setValueByIds.getValueByIds" /\ res.set_err # "") => res.err # ""

\* A cell of a 2x2 table was set to a value it did not hold, and the value
\* was read back.
C19_Witness ==
    /\ res.op = "setValueByIds.getValueByIds"
    /\ res.set_err = ""
    /\ Len(t.ObservationIds) = 2 /\ Len(t.SampleIds) = 2
    /\ res.obs_id = t.ObservationIds[2] /\ res.samp_id = t.SampleIds[1]
    /\ res.val = 1
    /\ CellValue(t, 0, 0) = 0 /\ CellValue(t, 1, 1) = 0

\* The 0-based <<observation position, sample position>> of a yielded pair.
PairPosition(tab, pair) ==
    <<Pos(tab.ObservationIds, pair[1]) - 1, Pos(tab.SampleIds, pair[2]) - 1>>

\* C20: nonzero yields the (observation id, sample id) pairs of exactly the
\* nonzero cells, each once, in the order of the observation positions and
\* then of the sample positions, on sparse and dense tables; on the 2x2
\* table with values [[1, 0], [0, 2]] it yields (O1, S1), then (O2, S2).
C20_Nonzero ==
    res.op = "nonzero" =>
        /\ \A n \in DOMAIN res.pairs :
              /\ res.pairs[n][1] \in Range(t.ObservationIds)
              /\ res.pairs[n][2] \in Range(t.SampleIds)
              /\ ValueByIds(t, res.pairs[n][1], res.pairs[n][2]) # 0
        /\ \A i \in DOMAIN t.ObservationIds, j \in DOMAIN t.SampleIds :
              CellValue(t, i - 1, j - 1) # 0 =>
                  Cardinality({n \in DOMAIN res.pairs :
                                  res.pairs[n] = <<t.ObservationIds[i], t.SampleIds[j]>>}) = 1
        /\ \A n, m \in DOMAIN res.pairs :
              n < m => \/ PairPosition(t, res.pairs[n])[1] < PairPosition(t, res.pairs[m])[1]
                       \/ /\ PairPosition(t, res.pairs[n])[1] = PairPosition(t, res.pairs[m])[1]
                          /\ PairPosition(t, res.pairs[n])[2] < PairPosition(t, res.pairs[m])[2]
        /\ (/\ t.ObservationIds = <<"O1", "O2">> /\ t.SampleIds = <<"S1", "S2">>
            /\ CellValue(t, 0, 0) = 1 /\ CellValue(t, 0, 1) = 0
            /\ CellValue(t, 1, 0) = 0 /\ CellValue(t, 1, 1) = 2)
               => res.pairs = <<<<"O1", "S1">>, <<"O2", "S2">>>>

\* nonzero was called on the dense 2x2 table with values [[1, 0], [0, 2]]
\* and yielded two pairs.
C20_Witness ==
    /\ res.op = "nonzero"
    /\ t.matrix_type = "dense"
    /\ t.ObservationIds = <<"O1", "O2">> /\ t.SampleIds = <<"S1", "S2">>
    /\ CellValue(t, 0, 0) = 1 /\ CellValue(t, 0, 1) = 0
    /\ CellValue(t, 1, 0) = 0 /\ CellValue(t, 1, 1) = 2
    /\ Len(res.pairs) = 2

\* The bin key a sample or an observation with metadata md is specified to
\* fall under: what f returns for md, a list taken as the equal tuple.
SpecBinKey(f, md) ==
    CASE f = "const" -> 0
      [] f = "k" -> IF "k" \in DOMAIN md.d THEN md.d["k"] ELSE NoneValue
      [] f = "k_seq" -> PyTuple(<<0>>)

\* The positions of an axis whose key is b, ascending.
SpecBinMembers(f, md, n, b) ==
    LET In(j) == SpecBinKey(f, MdAt(md, j)) = b
    IN  SelectSeq([j \in 1..n |-> j], In)

\* C21: a bin method that ends without error yields one table per distinct
\* bin key; the table of a key holds exactly the identifiers whose metadata
\* f maps to that key, in the receiver's relative order, with their values
\* and metadata, the other axis unchanged; every identifier is in exactly
\* one table; a list key and the equal tuple key are one bin.
C21_BinPartition ==
    /\ (res.op = "binSamplesByMetadata" /\ res.err = "") =>
          LET f == res.f
              md == res.before.SampleMetadata
              n == Len(t.SampleIds)
          IN  /\ DOMAIN res.bins = {SpecBinKey(f, MdAt(md, j)) : j \in 1..n}
              /\ \A j \in 1..n :
                    Cardinality({b \in DOMAIN res.bins :
                        /\ res.bins[b].table # NoTable
                        /\ t.SampleIds[j] \in Range(res.bins[b].table.SampleIds)}) = 1
              /\ \A b \in DOMAIN res.bins :
                    LET pos == SpecBinMembers(f, md, n, b)
                        tab == res.bins[b].table
                    IN  /\ res.bins[b].err = ""
                        /\ tab.matrix_type = t.matrix_type
                        /\ tab.SampleIds = [m \in DOMAIN pos |-> t.SampleIds[pos[m]]]
                        /\ \A m \in DOMAIN pos :
                              MdAt(tab.SampleMetadata, m) = MdAt(t.SampleMetadata, pos[m])
                        /\ tab.ObservationIds = t.ObservationIds
                        /\ tab.ObservationMetadata = t.ObservationMetadata
                        /\ tab.data.shape = <<Len(t.ObservationIds), Len(pos)>>
                        /\ \A i \in DOMAIN t.ObservationIds, m \in DOMAIN pos :
                              CellValue(tab, i - 1, m - 1) = CellValue(t, i - 1, pos[m] - 1)
    /\ (res.op = "binObservationsByMetadata" /\ res.err = "") =>
          LET f == res.f
              md == res.before.ObservationMetadata
              n == Len(t.ObservationIds)
          IN  /\ DOMAIN res.bins = {SpecBinKey(f, MdAt(md, i)) : i \in 1..n}
              /\ \A i \in 1..n :
                    Cardinality({b \in DOMAIN res.bins :
                        /\ res.bins[b].table # NoTable
                        /\ t.ObservationIds[i] \in Range(res.bins[b].table.ObservationIds)}) = 1
              /\ \A b \in DOMAIN res.bins :
                    LET pos == SpecBinMembers(f, md, n, b)
                        tab == res.bins[b].table
                    IN  /\ res.bins[b].err = ""
                        /\ tab.matrix_type = t.matrix_type
                        /\ tab.ObservationIds = [m \in DOMAIN pos |-> t.ObservationIds[pos[m]]]
                        /\ \A m \in DOMAIN pos :
                              MdAt(tab.ObservationMetadata, m) =
                                  MdAt(t.ObservationMetadata, pos[m])
                        /\ tab.SampleIds = t.SampleIds
                        /\ tab.SampleMetadata = t.SampleMetadata
                        /\ tab.data.shape = <<Len(pos), Len(t.SampleIds)>>
                        /\ \A m \in DOMAIN pos, j \in DOMAIN t.SampleIds :
                              CellValue(tab, m - 1, j - 1) = CellValue(t, pos[m] - 1, j - 1)

\* Two samples of a sparse table with two observations fell in two bins by
\* md["k"], one sample each.
C21_Witness ==
    /\ res.op = "binSamplesByMetadata" /\ res.err = "" /\ res.f = "k"
    /\ t.matrix_type = "sparse" /\ Len(t.ObservationIds) = 2
    /\ Cardinality(DOMAIN res.bins) = 2
    /\ \A b \in DOMAIN res.bins : Len(res.bins[b].table.SampleIds) = 1

\* Triple a comes before triple b by observation index, then sample index.
TripleBefore(a, b) == a[1] < b[1] \/ (a[1] = b[1] /\ a[2] < b[2])

\* C22: the record has shape [number of observation ids, number of sample
\* ids], rows and columns naming the ids in axis order, and data by the
\* backing: sparse, one [obsIndex, sampleIndex, value] per nonzero cell and
\* none for a zero cell, by observation then sample index; dense, one
\* sequence per observation with shape[1] values, zeros included.  The
\* sparse 1x2 table with the single value 3 at (0, 1) gives [[0, 1, 3]].
C22_ToRecord ==
    (res.op = "getBiomFormatObject" /\ res.err = "") =>
        LET rec == res.record
            n_obs == Len(t.ObservationIds)
            n_samp == Len(t.SampleIds)
        IN  /\ rec.shape = <<n_obs, n_samp>>
            /\ rec.matrix_type = t.matrix_type
            /\ Len(rec.rows) = n_obs
            /\ \A i \in 1..n_obs : rec.rows[i].id = t.ObservationIds[i]
            /\ Len(rec.columns) = n_samp
            /\ \A j \in 1..n_samp : rec.columns[j].id = t.SampleIds[j]
            /\ t.matrix_type = "sparse" =>
                  /\ \A n \in DOMAIN rec.data :
                        /\ Len(rec.data[n]) = 3
                        /\ rec.data[n][1] \in 0..(n_obs - 1)
                        /\ rec.data[n][2] \in 0..(n_samp - 1)
                        /\ rec.data[n][3] # 0
                        /\ rec.data[n][3] = CellValue(t, rec.data[n][1], rec.data[n][2])
                  /\ \A i \in 0..(n_obs - 1), j \in 0..(n_samp - 1) :
                        CellValue(t, i, j) # 0 =>
                            \E n \in DOMAIN rec.data :
                                rec.data[n][1] = i /\ rec.data[n][2] = j
                  /\ \A n, m \in DOMAIN rec.data :
                        n < m => TripleBefore(rec.data[n], rec.data[m])
            /\ t.matrix_type = "dense" =>
                  /\ Len(rec.data) = n_obs
                  /\ \A i \in 1..n_obs :
                        /\ Len(rec.data[i]) = rec.shape[2]
                        /\ \A j \in 1..n_samp : rec.data[i][j] = CellValue(t, i - 1, j - 1)
            /\ (/\ t.matrix_type = "sparse" /\ n_obs = 1 /\ n_samp = 2
                /\ CellValue(t, 0, 0) = 0 /\ CellValue(t, 0, 1) = 3) =>
                  rec.data = <<<<0, 1, 3>>>>

\* The record of the sparse 1x2 table with the single value 3 at (0, 1) was
\* produced.
C22_Witness ==
    /\ res.op = "getBiomFormatObject" /\ res.err = ""
    /\ t.matrix_type = "sparse" /\ t.data.shape = <<1, 2>>
    /\ CellValue(t, 0, 0) = 0 /\ CellValue(t, 0, 1) = 3
    /\ res.record.data = <<<<0, 1, 3>>>>
    /\ res.record.matrix_type = "sparse"

\* C23: getBiomFormatPrettyPrint on a table with a table kind succeeds and
\* returns the members of the record getBiomFormatObject produces for the
\* table, in the order of their keys.
C23_PrettyJson ==
    (res.op = "getBiomFormatPrettyPrint" /\ t.biom_type # "None") =>
        /\ res.err = ""
        /\ \E generated_by \in {Str("x")} :
              res.json = DumpsSorted(GetBiomFormatObject(t, generated_by).record)

\* The position of the first entry outside the shape of the store, or one
\* past the last entry when there is none.
RECURSIVE FirstOutOfBounds(_, _, _)
FirstOutOfBounds(self, entries, n) ==
    IF n > Len(entries) \/ ~InShape(self, entries[n][1]) THEN n
    ELSE FirstOutOfBounds(self, entries, n + 1)

\* C24: when an update fails on an entry out of bounds, every entry taken
\* before it stays applied: a get of the coordinate of an earlier nonzero
\* entry returns its value, a get of the coordinate of an earlier zero
\* entry returns zero.
C24_PartialUpdate ==
    (lastOp.op = "update" /\ lastOp.err # "") =>
        \A n \in 1..(FirstOutOfBounds(lastOp.before, lastOp.entries, 1) - 1) :
            GetItem(sd, lastOp.entries[n][1]) =
                [err |-> "", val |-> lastOp.entries[n][2]]

\* The dict of an update: coordinate -> value.
EntriesDict(entries) ==
    [k \in {entries[n][1] : n \in DOMAIN entries} |->
        entries[CHOOSE n \in DOMAIN entries : entries[n][1] = k][2]]

\* C25: an update whose coordinates are all in bounds succeeds and leaves
\* backing map, row index and column index as one set per entry does, in
\* whatever order the entries are taken; afterwards the coordinate of a
\* zero entry is absent, the coordinate of a nonzero entry holds its value,
\* and every other coordinate is as before.
C25_UpdateAsSets ==
    (/\ lastOp.op = "update"
     /\ \A n \in DOMAIN lastOp.entries : InShape(lastOp.before, lastOp.entries[n][1])) =>
        LET d == EntriesDict(lastOp.entries)
        IN  /\ lastOp.err = ""
            /\ \A order \in Perms(lastOp.entries) :
                  SetItems(lastOp.before, order) = [err |-> "", sd |-> sd]
            /\ \A k \in DOMAIN d :
                  IF d[k] = 0 THEN k \notin DOMAIN sd.items
                  ELSE k \in DOMAIN sd.items /\ sd.items[k] = d[k]
            /\ \A k \in Cells(sd.shape[1], sd.shape[2]) \ DOMAIN d :
                  /\ k \in DOMAIN sd.items <=> k \in DOMAIN lastOp.before.items
                  /\ k \in DOMAIN sd.items => sd.items[k] = lastOp.before.items[k]

\* An update of a 2x2 store removed a stored coordinate with a zero entry
\* and overwrote another with a new value.
C25_Witness ==
    /\ lastOp.op = "update" /\ lastOp.err = "" /\ Len(lastOp.entries) = 2
    /\ sd.shape = <<2, 2>>
    /\ \E n, m \in DOMAIN lastOp.entries :
          /\ lastOp.entries[n][2] = 0
          /\ lastOp.entries[n][1] \in DOMAIN lastOp.before.items
          /\ lastOp.entries[n][1] \notin DOMAIN sd.items
          /\ lastOp.entries[m][2] # 0
          /\ lastOp.entries[m][1] \in DOMAIN lastOp.before.items
          /\ sd.items[lastOp.entries[m][1]] = lastOp.entries[m][2]
          /\ lastOp.before.items[lastOp.entries[m][1]] # lastOp.entries[m][2]

\* The index sets of a store hold exactly the coordinates of its backing
\* map, each in the set of its row and of its column.
StoreIndexOk(s) ==
    /\ DOMAIN s.index_rows = 0..(s.shape[1] - 1)
    /\ DOMAIN s.index_cols = 0..(s.shape[2] - 1)
    /\ \A r \in DOMAIN s.index_rows : s.index_rows[r] = {a \in DOMAIN s.items : a[1] = r}
    /\ \A c \in DOMAIN s.index_cols : s.index_cols[c] = {a \in DOMAIN s.items : a[2] = c}

\* C26: for an in-bounds row, getRow returns a store of shape (1, cols)
\* holding the row's values at (0, c) and nothing else, its index sets
\* matching its entries; getCol likewise with shape (rows, 1); an
\* out-of-bounds row or column fails with OutOfBounds; the receiver is
\* unchanged, also by a later write to the result.
C26_GetRowCol ==
    /\ lastOp.op = "getRow" =>
          IF lastOp.arg \in 0..(sd.shape[1] - 1)
          THEN /\ lastOp.err = ""
               /\ lastOp.out.shape = <<1, sd.shape[2]>>
               /\ DOMAIN lastOp.out.items =
                      {<<0, a[2]>> : a \in {b \in DOMAIN sd.items : b[1] = lastOp.arg}}
               /\ \A c \in 0..(sd.shape[2] - 1) :
                      GetItem(lastOp.out, <<0, c>>) = GetItem(sd, <<lastOp.arg, c>>)
               /\ StoreIndexOk(lastOp.out)
          ELSE OutOfBounds(lastOp.err)
    /\ lastOp.op = "getCol" =>
          IF lastOp.arg \in 0..(sd.shape[2] - 1)
          THEN /\ lastOp.err = ""
               /\ lastOp.out.shape = <<sd.shape[1], 1>>
               /\ DOMAIN lastOp.out.items =
                      {<<a[1], 0>> : a \in {b \in DOMAIN sd.items : b[2] = lastOp.arg}}
               /\ \A r \in 0..(sd.shape[1] - 1) :
                      GetItem(lastOp.out, <<r, 0>>) = GetItem(sd, <<r, lastOp.arg>>)
               /\ StoreIndexOk(lastOp.out)
          ELSE OutOfBounds(lastOp.err)
    /\ lastOp.op \in {"getRow", "getCol", "setResult"} => sd = lastOp.receiver

\* C27: transpose returns a store of the reversed shape whose value at
\* (c, r) is the receiver's value at (r, c), with nothing else stored and
\* index sets matching its entries; the receiver is unchanged; the
\* transpose of the transpose has the shape and the entries of the store.
C27_Transpose ==
    /\ lastOp.op = "transpose" =>
          /\ lastOp.err = ""
          /\ lastOp.out.shape = <<sd.shape[2], sd.shape[1]>>
          /\ \A k \in Cells(sd.shape[1], sd.shape[2]) :
                GetItem(lastOp.out, <<k[2], k[1]>>) = GetItem(sd, k)
          /\ DOMAIN lastOp.out.items = {<<a[2], a[1]>> : a \in DOMAIN sd.items}
          /\ StoreIndexOk(lastOp.out)
          /\ sd = lastOp.receiver
    /\ lastOp.op = "transpose.transpose" =>
          /\ lastOp.out.shape = sd.shape
          /\ lastOp.out.items = sd.items
          /\ sd = lastOp.receiver

\* The 2x1 store with a value at (1, 0) only was transposed: the result is
\* 1x2 with that value at (0, 1).
C27_Witness ==
    /\ lastOp.op = "transpose"
    /\ sd.shape = <<2, 1>> /\ DOMAIN sd.items = {<<1, 0>>}
    /\ lastOp.out.shape = <<1, 2>>
    /\ DOMAIN lastOp.out.items = {<<0, 1>>}
    /\ lastOp.out.items[<<0, 1>>] = sd.items[<<1, 0>>]


\* C29: after sets and updates, also an update that failed partway, the
\* row and column index sets hold exactly the coordinates of the backing
\* map, and getRow and getCol succeed on every in-bounds row and column
\* and return exactly the stored entries.
C29_IndexAfterUpdates ==
    /\ StoreIndexOk(sd)
    /\ \A row \in 0..(sd.shape[1] - 1) :
          /\ GetRow(sd, row).err = ""
          /\ \A c \in 0..(sd.shape[2] - 1) :
                GetItem(GetRow(sd, row).sd, <<0, c>>) = GetItem(sd, <<row, c>>)
    /\ \A col \in 0..(sd.shape[2] - 1) :
          /\ GetCol(sd, col).err = ""
          /\ \A r \in 0..(sd.shape[1] - 1) :
                GetItem(GetCol(sd, col).sd, <<r, 0>>) = GetItem(sd, <<r, col>>)

\* C28: sortSampleOrder and sortObservationOrder called with an order that
\* names an identifier the axis does not hold fail with the UnknownID error
\* getValueByIds raises for an unknown id, and return no table.
C28_SortUnknownId ==
    res.op \in {"sortSampleOrder.unknown", "sortObservationOrder.unknown"} =>
        /\ res.err \in UnknownIdErrors
        /\ res.table = NoTable
====
